---- MODULE Spec2Model ----
(***************************************************************************)
(* A model of the go-mongo driver core: the cursor engine that streams     *)
(* documents of a server-held result set over one connection, and the      *)
(* Collection / Database facade that layers the write acknowledge          *)
(* (getLastError) on the connection's mutation primitives.                 *)
(*                                                                         *)
(* The facade is translated from collection.go and database.go.  The       *)
(* cursor engine (the Conn implementation) is not among the source files:  *)
(* it is modelled from sections 4.6 and 5 of the specification and from    *)
(* the cursor tests, which drive it through the Cursor interface.          *)
(***************************************************************************)
EXTENDS Integers, Sequences, FiniteSets, TLC

----------------------------------------------------------------------------
(* Bounds of the model *)

\* documents per selector in the plain (not capped) collection
MaxDocs == 3
\* largest Limit() a query is given
MaxLimit == 2
\* largest BatchSize() a query is given
MaxBatch == 3
\* largest batch the server picks on its own (numberToReturn = 0)
MaxServerBatch == 2
\* documents inserted into the capped collection
MaxCapped == 6
\* of these, documents that the tailable cursor's selector does not match
MaxNoise == 1
Cursors == {0, 1}

Min(a, b) == IF a < b THEN a ELSE b

IsPrefix(s, t) == Len(s) <= Len(t) /\ SubSeq(t, 1, Len(s)) = s

RECURSIVE SelectX(_, _)
\* the x values of the documents of d whose r field is sel, in d's order
SelectX(d, sel) ==
    IF d = <<>> THEN <<>>
    ELSE IF Head(d).r = sel THEN <<Head(d).x>> \o SelectX(Tail(d), sel)
         ELSE SelectX(Tail(d), sel)

Asc(a, b) == a < b

----------------------------------------------------------------------------
VARIABLES
    docs,       \* the collection on the server: documents [r, x] in insertion order
    scen,       \* the test the driver program runs: "one", "exh", "two" or "tail"
    connOpen,   \* the connection has not been closed
    stream,     \* replies the server has written that the client has not read yet
    srv,        \* the server's cursors: srv[i] = [pos, alive]
    cur,        \* the client's cursors
    delivered,  \* delivered[i]: x of every document Next has handed out on cursor i
    kills,      \* kills[i]: kill-cursors messages sent for cursor i
    post,       \* post[i]: the calls made on cursor i after the connection closed
    drains,     \* how many documents cursor 0 had delivered each time it ran dry
    hn,         \* hn[i]: the last call on cursor i was a HasNext that returned true
    last,       \* the call that was made last and what it returned
    fac,        \* the facade operation that ran last (see the facade section)
    oid,        \* the ObjectId generator: its counter, its lock, its callers
    si,         \* the struct type whose metadata is compiled, and the metadata
    dec         \* the BSON decoder: its input, its read offset, its target

vars == <<docs, scen, connOpen, stream, srv, cur, delivered, kills, post, drains, hn, last, fac,
          oid, si, dec>>

\* the variables of the bson part, which the driver core leaves alone
BsonVars == <<oid, si, dec>>

\* TestTailableCursor runs on a capped collection; the other tests on a plain one
capped == scen = "tail"

----------------------------------------------------------------------------
(* The server: a result set per cursor, handed out in batches *)

\* what the query of a cursor over selector sel matches, in the order the
\* server returns it: sorted by x, or in insertion order for a tailable cursor
Result(sel, tailable) ==
    IF tailable THEN SelectX(docs, sel) ELSE SortSeq(SelectX(docs, sel), Asc)

\* the size of the batch the server returns for numberToReturn n when avail
\* documents are left: n = 0 leaves the choice (pick) to the server
ServerBatchLen(n, pick, avail) ==
    Min(IF n = 0 THEN pick ELSE IF n < 0 THEN 0 - n ELSE n, avail)

\* one reply to a query or a get-more of cursor i (over selector i) at pos: the batch,
\* the position after it, and the cursor id the reply carries (0: the server
\* has closed the cursor).  A lazy server keeps a cursor that has just handed
\* out its last documents open until the next get-more finds nothing.
ServerReply(i, tailable, n, pos, pick, lazy) ==
    LET res  == Result(i, tailable)
        len  == ServerBatchLen(n, pick, Len(res) - pos)
        end  == pos + len >= Len(res)
        dead == n < 0 \/ (~tailable /\ end /\ ~(lazy /\ len > 0))
    IN  [msg   |-> [to |-> i, cid |-> IF dead THEN 0 ELSE i + 1,
                    batch |-> SubSeq(res, pos + 1, pos + len)],
         pos   |-> pos + len,
         alive |-> ~dead]

RECURSIVE ExhaustReplies(_, _, _, _)
\* the replies the server streams for an exhaust query: batches of k documents
\* (k >= 1) until the result set is finished, the last one with cursor id 0
ExhaustReplies(i, res, pos, k) ==
    LET len  == Min(k, Len(res) - pos)
        end  == pos + len >= Len(res)
        m    == [to |-> i, cid |-> IF end THEN 0 ELSE i + 1,
                 batch |-> SubSeq(res, pos + 1, pos + len)]
    IN  IF end THEN <<m>> ELSE <<m>> \o ExhaustReplies(i, res, pos + len, k)

----------------------------------------------------------------------------
(* The client: the cursor engine *)

NoCursor ==
    [st |-> "none", sel |-> 0, limit |-> 0, batchSize |-> 0, exhaust |-> FALSE,
     tailable |-> FALSE, cid |-> 0, buf |-> <<>>, req |-> FALSE, count |-> 0]

NoCall ==
    [c |-> 0, op |-> "none", res |-> "none", pre |-> "none", hn |-> FALSE, sent |-> FALSE,
     kill |-> FALSE, cid0 |-> 0, noop |-> FALSE, conn |-> TRUE, terr |-> FALSE]

\* the spec's state Closed: closed explicitly (or by a fatal error), or the
\* server cursor id is 0 and the buffer is empty with no reply outstanding
IsClosed(c) == c.st = "closed" \/ (c.st = "open" /\ c.cid = 0 /\ c.buf = <<>> /\ ~c.req)

\* a cursor that does not count its deliveries against the limit
LimitReached_Never(c) == FALSE

\* the limit has been delivered
LimitReached(c) == c.limit > 0 /\ c.count >= c.limit

\* numberToReturn of the next request: the batch size, capped by what is left
\* of the limit; with a limit and no batch size, the rest of the limit
NumberToReturn(c) ==
    IF c.limit = 0 THEN c.batchSize
    ELSE LET left == c.limit - c.count
         IN  IF c.batchSize = 0 \/ c.batchSize > left THEN left ELSE c.batchSize

\* a cursor that takes an empty batch for the end of the result
Accept_EmptyEnds(c, m) ==
    [c EXCEPT !.buf = m.batch, !.cid = IF m.batch = <<>> THEN 0 ELSE m.cid,
              !.req = c.exhaust /\ m.cid # 0]

\* a reply is taken by the cursor that waits for it
Accept(c, m) ==
    [c EXCEPT !.buf = m.batch, !.cid = m.cid, !.req = c.exhaust /\ m.cid # 0]

\* a connection that keeps no table of the cursors that wait for a reply
Registered_Never(c) == FALSE

\* cursor c waits for a reply: the connection hands it the reply when
\* another cursor's read meets it
Registered(c) == c.st = "open" /\ c.req

RECURSIVE Receive(_, _, _)
\* read replies off the connection until the one for cursor i; a reply for
\* another cursor goes to that cursor if it still waits, and is dropped if not
Receive(i, s, cs) ==
    IF s = <<>> THEN [stream |-> s, cur |-> cs, found |-> FALSE]
    ELSE LET m == Head(s)
         IN  IF m.to = i
             THEN [stream |-> Tail(s), cur |-> [cs EXCEPT ![i] = Accept(@, m)],
                   found |-> TRUE]
             ELSE Receive(i, Tail(s),
                          [cs EXCEPT ![m.to] = IF Registered(@) THEN Accept(@, m) ELSE @])

\* a cursor that stays open after a fatal error
Fatal_StaysOpen(c) == [c EXCEPT !.buf = <<>>, !.req = FALSE]

\* a fatal error closes the cursor
Fatal(c) == [c EXCEPT !.st = "closed", !.buf = <<>>, !.req = FALSE]

\* make the buffer non-empty if the server has more: read the outstanding
\* reply, or send a get-more and read its reply.  On a closed connection the
\* call meets the transport error, which closes the cursor.
Fill(i, pick, lazy) ==
    LET c == cur[i]
        same == [cur |-> cur, stream |-> stream, srv |-> srv, sent |-> FALSE]
    IN  IF ~connOpen
        THEN [same EXCEPT !.cur = [cur EXCEPT ![i] = Fatal(@)]] @@ [res |-> "transport"]
        ELSE IF c.buf # <<>> \/ (~c.req /\ c.cid = 0)
        THEN same @@ [res |-> "ok"]
        ELSE LET gm   == ~c.req
                 rep  == ServerReply(i, c.tailable, NumberToReturn(c), srv[i].pos, pick, lazy)
                 s1   == IF gm /\ srv[i].alive THEN stream \o <<rep.msg>>
                         ELSE IF gm THEN stream \o <<[to |-> i, cid |-> 0, batch |-> <<>>]>>
                         ELSE stream
                 srv1 == IF gm /\ srv[i].alive
                         THEN [srv EXCEPT ![i] = [pos |-> rep.pos, alive |-> rep.alive]]
                         ELSE srv
                 cur1 == [cur EXCEPT ![i].req = TRUE]
                 r    == Receive(i, s1, cur1)
             IN  [cur |-> r.cur, stream |-> r.stream, srv |-> srv1, sent |-> gm,
                  res |-> IF r.found THEN "ok" ELSE "blocked"]

RECURSIVE Drain(_, _, _)
\* Close of an exhaust cursor whose stream has not ended: read the replies
\* up to the one that carries cursor id 0
Drain(i, s, cs) ==
    LET r == Receive(i, s, cs)
    IN  IF ~r.found \/ r.cur[i].cid = 0 THEN r ELSE Drain(i, r.stream, r.cur)

\* an exhaust cursor owns the connection's replies until its stream has ended
Owns(c) == c.st = "open" /\ c.exhaust /\ c.req

\* a Close that leaves the rest of an exhaust stream on the connection
CloseDrains_Never(c) == FALSE

\* Close of cursor c reads the rest of an exhaust stream
CloseDrains(c) == c.st # "closed" /\ connOpen /\ c.exhaust /\ c.req

\* a Close that sends kill-cursors whenever the cursor id is not 0
CloseKills_Again(c) == connOpen /\ ~CloseDrains(c) /\ c.cid # 0

\* Close of cursor c sends kill-cursors: the first Close, of a cursor whose
\* server cursor id is not 0
CloseKills(c) == c.st # "closed" /\ connOpen /\ ~CloseDrains(c) /\ c.cid # 0

\* HasNext and Next give up before they touch the connection
NextGivesUp(c) == c.st = "closed"

\* the query of TestTwoCursors: Sort(x).BatchSize(2)
TwoOpts == [limit |-> 0, batchSize |-> 2, exhaust |-> FALSE, tailable |-> FALSE]

\* the queries the tests open on cursor slot i.  TestTailableCursor ("tail"):
\* one tailable cursor.  TestTwoCursors ("two"): two cursors with TwoOpts.
\* TestFindOptions: a cursor with any limit, batch size and exhaust flag
\* ("one"); an exhaust cursor and another cursor, exhaust or not, on the same
\* connection ("exh").
FindOpts(i) ==
    IF scen = "tail"
    THEN IF i = 0
         THEN {[limit |-> 0, batchSize |-> 0, exhaust |-> FALSE, tailable |-> TRUE]}
         ELSE {}
    ELSE IF scen = "two" THEN {TwoOpts}
    ELSE IF scen = "one"
    THEN IF i = 0
         THEN {[limit |-> l, batchSize |-> b, exhaust |-> e, tailable |-> FALSE] :
                 l \in 0..MaxLimit, b \in 0..MaxBatch, e \in BOOLEAN}
         ELSE {}
    ELSE IF i = 0
    THEN {[limit |-> 0, batchSize |-> b, exhaust |-> TRUE, tailable |-> FALSE] :
            b \in 0..MaxBatch}
    ELSE {TwoOpts, [TwoOpts EXCEPT !.exhaust = TRUE]}

\* what TestCursorCloseAfterConnectionClose calls on a cursor once the
\* connection is closed
PostScript == <<"HasNext", "Next", "Close", "Next">>

MayCall(i, op) ==
    /\ cur[i].st # "none"
    /\ connOpen \/ (Len(post[i]) < Len(PostScript) /\ PostScript[Len(post[i]) + 1] = op)

Logged(i, op, res, terr) ==
    IF connOpen THEN post ELSE [post EXCEPT ![i] = Append(@, <<op, res, terr>>)]

\* Query.Cursor(): send the query over selector i; the reply is read by the
\* first HasNext or Next.  The caller keeps the exhaust contract: no query
\* while an exhaust cursor owns the connection, no exhaust query beside
\* another open cursor.
Find(i, o, pick, lazy) ==
    /\ cur[i].st = "none"
    /\ connOpen
    /\ \A j \in Cursors : ~Owns(cur[j])
    /\ o.exhaust => \A j \in Cursors \ {i} : cur[j].st # "open"
    /\ LET c   == [NoCursor EXCEPT !.st = "open", !.sel = i, !.limit = o.limit,
                       !.batchSize = o.batchSize, !.exhaust = o.exhaust,
                       !.tailable = o.tailable, !.req = TRUE]
           n   == NumberToReturn(c)
           res == Result(i, o.tailable)
       IN  /\ cur' = [cur EXCEPT ![i] = c]
           /\ IF o.exhaust
              THEN /\ stream' = stream \o
                        ExhaustReplies(i, res, 0, IF n = 0 THEN pick ELSE n)
                   /\ srv' = [srv EXCEPT ![i] = [pos |-> Len(res), alive |-> FALSE]]
              ELSE LET rep == ServerReply(i, o.tailable, n, 0, pick, lazy) IN
                   /\ stream' = stream \o <<rep.msg>>
                   /\ srv' = [srv EXCEPT ![i] = [pos |-> rep.pos, alive |-> rep.alive]]
    /\ last' = [NoCall EXCEPT !.c = i, !.op = "Find", !.res = "ok", !.sent = TRUE]
    /\ UNCHANGED <<docs, scen, connOpen, delivered, kills, post, drains, hn, fac, oid, si, dec>>

\* Cursor.HasNext()
HasNext(i, pick, lazy) ==
    /\ MayCall(i, "HasNext")
    /\ LET c   == cur[i]
           out == NextGivesUp(c) \/ (connOpen /\ LimitReached(c))
           f   == Fill(i, pick, lazy)
           res == IF out THEN "false"
                  ELSE IF f.res = "blocked" THEN "blocked"
                  ELSE IF f.res = "ok" /\ f.cur[i].buf # <<>> THEN "true" ELSE "false"
           dry == scen = "tail" /\ ~out /\ res = "false" /\ f.res = "ok"
                    /\ (drains = <<>> \/ drains[Len(drains)] # c.count)
       IN  /\ cur' = IF out THEN cur ELSE f.cur
           /\ stream' = IF out THEN stream ELSE f.stream
           /\ srv' = IF out THEN srv ELSE f.srv
           /\ post' = Logged(i, "HasNext", res, ~out /\ f.res = "transport")
           /\ drains' = IF dry THEN Append(drains, c.count) ELSE drains
           /\ hn' = [hn EXCEPT ![i] = res = "true"]
           /\ last' = [NoCall EXCEPT !.c = i, !.op = "HasNext", !.res = res, !.pre = c.st,
                            !.sent = ~out /\ f.sent, !.cid0 = c.cid, !.conn = connOpen,
                            !.terr = ~out /\ f.res = "transport",
                            !.noop = out \/ (f.cur = cur /\ f.stream = stream)]
    /\ UNCHANGED <<docs, scen, connOpen, delivered, kills, fac, oid, si, dec>>

\* Cursor.Next(target)
NextDoc(i, pick, lazy) ==
    /\ MayCall(i, "Next")
    /\ LET c   == cur[i]
           out == NextGivesUp(c) \/ (connOpen /\ LimitReached(c))
           f   == Fill(i, pick, lazy)
           got == ~out /\ f.res = "ok" /\ f.cur[i].buf # <<>>
           res == IF c.st = "closed" THEN "closed"
                  ELSE IF out THEN "eof"
                  ELSE IF f.res # "ok" THEN f.res
                  ELSE IF got THEN "ok" ELSE "eof"
       IN  /\ cur' = IF out THEN cur
                     ELSE IF got
                     THEN [f.cur EXCEPT ![i].buf = Tail(@), ![i].count = @ + 1]
                     ELSE f.cur
           /\ delivered' = IF got THEN [delivered EXCEPT ![i] = Append(@, Head(f.cur[i].buf))]
                           ELSE delivered
           /\ stream' = IF out THEN stream ELSE f.stream
           /\ srv' = IF out THEN srv ELSE f.srv
           /\ post' = Logged(i, "Next", res, ~out /\ f.res = "transport")
           /\ hn' = [hn EXCEPT ![i] = FALSE]
           /\ last' = [NoCall EXCEPT !.c = i, !.op = "Next", !.res = res, !.pre = c.st,
                            !.hn = hn[i],
                            !.sent = ~out /\ f.sent, !.cid0 = c.cid, !.conn = connOpen,
                            !.terr = ~out /\ f.res = "transport",
                            !.noop = out]
    /\ UNCHANGED <<docs, scen, connOpen, kills, drains, fac, oid, si, dec>>

\* Cursor.Close()
Close(i) ==
    /\ MayCall(i, "Close")
    /\ LET c     == cur[i]
           out   == c.st = "closed"
           drain == CloseDrains(c)
           kill  == CloseKills(c)
           d     == Drain(i, stream, cur)
           res   == IF drain /\ ~d.found THEN "blocked" ELSE "ok"
       IN  /\ cur' = IF out THEN cur
                     ELSE [(IF drain THEN d.cur ELSE cur) EXCEPT ![i] = Fatal(@)]
           /\ stream' = IF drain THEN d.stream ELSE stream
           /\ srv' = IF kill THEN [srv EXCEPT ![i].alive = FALSE] ELSE srv
           /\ kills' = IF kill THEN [kills EXCEPT ![i] = @ + 1] ELSE kills
           /\ post' = Logged(i, "Close", res, FALSE)
           /\ hn' = [hn EXCEPT ![i] = FALSE]
           /\ last' = [NoCall EXCEPT !.c = i, !.op = "Close", !.res = res, !.pre = c.st,
                            !.sent = kill, !.kill = kill, !.cid0 = c.cid,
                            !.conn = connOpen, !.noop = out /\ ~kill /\ ~drain]
    /\ UNCHANGED <<docs, scen, connOpen, delivered, drains, fac, oid, si, dec>>

\* Conn.Close(): the replies not read yet are lost
ConnClose ==
    /\ scen = "one"
    /\ connOpen
    /\ connOpen' = FALSE
    /\ stream' = <<>>
    /\ UNCHANGED <<docs, scen, srv, cur, delivered, kills, post, drains, hn, last, fac, oid, si, dec>>

RECURSIVE RoundX(_, _)
\* TestTailableCursor inserts x = 0; then x = 0, 1; then x = 0, 1, 2; ...:
\* the x of the k-th insert (k = 0, 1, ...), counted from round n on
RoundX(k, n) == IF k < n THEN k ELSE RoundX(k - n, n + 1)

RECURSIVE Dispatch(_, _)
\* the replies a one-shot command cursor reads before its own: each goes to
\* the cursor that waits for it, or is dropped
Dispatch(s, cs) ==
    IF s = <<>> THEN cs
    ELSE Dispatch(Tail(s),
                  [cs EXCEPT ![Head(s).to] = IF Registered(@) THEN Accept(@, Head(s)) ELSE @])

\* Collection.Insert into the capped collection, of a document that matches
\* the cursor's selector (r = 0) or not, as TestTailableCursor does it: the
\* transport insert, then the getLastError command on the same connection,
\* whose one-shot cursor reads every reply that is ahead of its own.  (The
\* plain collection is filled before the cursors open.)
InsertDoc(r) ==
    /\ capped
    /\ connOpen
    /\ Len(docs) < MaxCapped
    /\ r # 0 => Len(SelectX(docs, r)) < MaxNoise
    /\ docs' = Append(docs, [r |-> r, x |-> RoundX(Len(SelectX(docs, r)), 1)])
    /\ cur' = Dispatch(stream, cur)
    /\ stream' = <<>>
    /\ last' = [NoCall EXCEPT !.c = r, !.op = "Insert", !.res = "ok", !.sent = TRUE]
    /\ UNCHANGED <<scen, connOpen, srv, delivered, kills, post, drains, hn, fac, oid, si, dec>>

\* the plain collection: k documents for each selector, x = 0..k-1, inserted
\* in ascending or in descending order of x
DocsOf(k, desc) ==
    [j \in 1..k |-> [r |-> 0, x |-> IF desc THEN k - j ELSE j - 1]] \o
    [j \in 1..k |-> [r |-> 1, x |-> IF desc THEN k - j ELSE j - 1]]

NoFacade == [op |-> "none"]

\* the bson part at rest
NoOid == [op |-> "none"]
NoStructInfo == [op |-> "none"]
NoDecode == [op |-> "none"]

Init ==
    /\ scen \in {"one", "exh", "two", "tail"}
    /\ \E k \in 0..MaxDocs, desc \in BOOLEAN :
          docs = IF scen = "tail" THEN <<>> ELSE DocsOf(k, desc)
    /\ connOpen = TRUE
    /\ stream = <<>>
    /\ srv = [i \in Cursors |-> [pos |-> 0, alive |-> FALSE]]
    /\ cur = [i \in Cursors |-> NoCursor]
    /\ delivered = [i \in Cursors |-> <<>>]
    /\ kills = [i \in Cursors |-> 0]
    /\ post = [i \in Cursors |-> <<>>]
    /\ drains = <<>>
    /\ hn = [i \in Cursors |-> FALSE]
    /\ last = NoCall
    /\ fac = NoFacade
    /\ oid = NoOid
    /\ si = NoStructInfo
    /\ dec = NoDecode

\* the server's choices that the next request of cursor c can meet: the batch
\* size when numberToReturn is 0, and whether it closes a finished cursor at once
Picks(c, sends) == IF sends /\ NumberToReturn(c) = 0 THEN 1..MaxServerBatch ELSE {1}
Lazies(c, sends) == IF sends /\ ~c.exhaust THEN BOOLEAN ELSE {FALSE}

\* a HasNext or a Next on cursor c sends a get-more
Sends(c) ==
    /\ c.st = "open" /\ ~LimitReached(c) /\ c.buf = <<>> /\ ~c.req /\ c.cid # 0
    /\ connOpen

Next ==
    \/ \E i \in Cursors : \E o \in FindOpts(i) :
          \E pick \in Picks([NoCursor EXCEPT !.limit = o.limit, !.batchSize = o.batchSize],
                             TRUE),
             lazy \in Lazies(o, TRUE) : Find(i, o, pick, lazy)
    \/ \E i \in Cursors :
          \E pick \in Picks(cur[i], Sends(cur[i])), lazy \in Lazies(cur[i], Sends(cur[i])) :
             HasNext(i, pick, lazy)
    \/ \E i \in Cursors :
          \E pick \in Picks(cur[i], Sends(cur[i])), lazy \in Lazies(cur[i], Sends(cur[i])) :
             NextDoc(i, pick, lazy)
    \/ \E i \in Cursors : Close(i)
    \/ ConnClose
    \/ \E r \in Cursors : InsertDoc(r)

Spec == Init /\ [][Next]_vars

----------------------------------------------------------------------------
(* The cursor engine: what the claims say *)

\* what the loop over cursor i has to deliver: the result of its query, cut
\* to its limit
Expected(i) ==
    LET res == Result(i, cur[i].tailable)
    IN  IF cur[i].limit > 0 THEN SubSeq(res, 1, Min(cur[i].limit, Len(res))) ELSE res

\* C1 (cursor totality): a cursor that is not tailable, over a sorted query
\* with any limit, batch size and exhaust flag, delivers a prefix of the
\* sorted result cut to the limit (sort order, no gap, no duplicate, never
\* more than the limit); a Next that follows a HasNext that returned true
\* succeeds; HasNext returns true only while something is left to deliver;
\* and when HasNext returns false on a cursor that nobody closed, everything
\* has been delivered: K documents for limit 0, min(L, K) for limit L.
C1_CursorTotality ==
    \A i \in Cursors :
        (cur[i].st # "none" /\ ~cur[i].tailable) =>
            /\ IsPrefix(delivered[i], Expected(i))
            /\ (last.c = i /\ last.op = "Next" /\ last.hn /\ last.conn)
                  => last.res = "ok"
            /\ (last.c = i /\ last.op = "HasNext" /\ last.res = "true")
                  => Len(delivered[i]) < Len(Expected(i))
            /\ (last.c = i /\ last.op = "HasNext" /\ last.res = "false"
                  /\ last.pre = "open" /\ last.conn)
                  => delivered[i] = Expected(i)

\* the loop has run dry after two batches: 3 documents, batch size 2, no limit
C1_Witness ==
    /\ scen = "one" /\ cur[0].batchSize = 2 /\ cur[0].limit = 0 /\ ~cur[0].exhaust
    /\ delivered[0] = <<0, 1, 2>>
    /\ last.op = "HasNext" /\ last.res = "false" /\ last.pre = "open" /\ last.conn

\* C2 (cursor interleaving): with two cursors on one connection, whatever the
\* interleaving of their Next and Close calls, no call ever waits for a reply
\* that another cursor has taken, each cursor delivers a prefix of its own
\* selector's sorted documents, and a Next on a cursor that has not been
\* closed returns the next document, or reports the end once all of that
\* cursor's documents are delivered.
C2_CursorInterleaving ==
    /\ last.res # "blocked"
    /\ \A i \in Cursors :
          (cur[i].st # "none" /\ scen = "two") => IsPrefix(delivered[i], Expected(i))
    /\ (scen = "two" /\ last.op = "Next" /\ last.pre = "open")
          => \/ last.res = "ok"
             \/ last.res = "eof" /\ delivered[last.c] = Expected(last.c)

\* cursor 1 was closed half way, cursor 0 went on to its last document
C2_Witness ==
    /\ scen = "two"
    /\ delivered[0] = <<0, 1, 2>> /\ delivered[1] = <<0, 1>>
    /\ cur[1].st = "closed" /\ cur[0].st = "open"
    /\ last.c = 0 /\ last.op = "Next" /\ last.res = "ok"

RECURSIVE Increasing(_)
Increasing(s) ==
    Len(s) < 2 \/ (s[1] < s[2] /\ Increasing(Tail(s)))

\* C3 (tailable follow-up): a tailable cursor delivers the matching documents
\* of the capped collection in insertion order; when its HasNext returns
\* false it has delivered every matching document inserted so far and it
\* stays open, so that the loop, resumed after further inserts, delivers
\* exactly the new documents.
C3_TailableFollowUp ==
    scen = "tail" =>
        /\ cur[0].st # "none" => IsPrefix(delivered[0], SelectX(docs, 0))
        /\ (last.c = 0 /\ last.op = "HasNext" /\ last.res = "false" /\ last.pre = "open")
              => delivered[0] = SelectX(docs, 0) /\ cur[0].st = "open"
        /\ (last.op = "Next" /\ last.hn) => last.res = "ok"
        /\ Increasing(drains)
        /\ \A k \in 1..Len(drains) : drains[k] <= Len(delivered[0])

\* the test's three rounds: the cursor ran dry after 1, 3 and 6 documents
C3_Witness ==
    /\ scen = "tail"
    /\ drains = <<1, 3, 6>>
    /\ delivered[0] = <<0, 0, 1, 0, 1, 2>>

C5_CloseIdempotent ==
    /\ \A i \in Cursors : kills[i] <= 1
    /\ last.kill => (last.op = "Close" /\ last.pre = "open" /\ last.cid0 # 0)
    /\ last.pre = "closed" =>
          /\ ~last.sent
          /\ last.noop
          /\ last.op = "Next" => last.res = "closed"
          /\ last.op = "HasNext" => last.res = "false"
          /\ last.op = "Close" => last.res = "ok"

\* a second Close of a cursor whose first Close sent kill-cursors
C5_Witness ==
    /\ last.op = "Close" /\ last.pre = "closed"
    /\ kills[last.c] = 1

----------------------------------------------------------------------------
(* The Collection / Database facade: collection.go and database.go.         *)
(* Strings the code takes apart or puts together (namespaces, index names)  *)
(* are sequences of characters; commands, options and error messages, which *)
(* it only passes on or compares, are plain strings.                        *)

\* the nil interface value of a command
NilCmd == "nil"
DefaultLastErrorCmd == "{getLastError: 1}"
\* a write-ack command of the application's own
CustomLastErrorCmd == "{getLastError: 1, w: 2}"

runFindOptions == [BatchSize |-> 0 - 1, SlaveOk |-> FALSE]

\* os.Error values.  Nil is the nil error; two errors are the same error
\* when they are the same value of the same kind.
Nil == [k |-> "nil", s |-> ""]
ErrNotFound == [k |-> "ErrNotFound", s |-> "mongo: not found"]
\* os.NewError(msg)
NewError(msg) == [k |-> "errorString", s |-> msg]
\* an error of the connection: the transport failed
TransportErr == [k |-> "transport", s |-> "EOF"]
\* an error of the BSON decoder
DecodeErr == [k |-> "DecodeConvertError", s |-> "bson: could not decode"]

\* strings.Index(s, ch): the position, from 0, of the first ch in s, or -1
StringsIndex(s, ch) ==
    IF \E i \in 1..Len(s) : s[i] = ch
    THEN (CHOOSE i \in 1..Len(s) : s[i] = ch /\ \A j \in 1..(i - 1) : s[j] # ch) - 1
    ELSE 0 - 1

\* SplitNamespace(s)
SplitNamespace(s) ==
    LET i == StringsIndex(s, ".")
    IN  IF i > 0 THEN <<SubSeq(s, 1, i), SubSeq(s, i + 2, Len(s))>> ELSE <<s, <<>>>>

\* Collection.Db(): the database of collection c
Db(c) == [Name |-> SplitNamespace(c.Namespace)[1], LastErrorCmd |-> c.LastErrorCmd]

\* Database.C(name)
C(db, name) == [Namespace |-> db.Name \o <<".">> \o name, LastErrorCmd |-> db.LastErrorCmd]

\* ".$cmd" and "system.indexes"
DollarCmd == <<".", "$", "c", "m", "d">>
SystemIndexes == <<"s", "y", "s", "t", "e", "m", ".", "i", "n", "d", "e", "x", "e", "s">>

\* a CommandResponse.Error that passes an empty errmsg on
Error_NoDefault(r) == IF r.ok THEN Nil ELSE NewError(r.errmsg)

\* CommandResponse.Error()
Error(r) ==
    IF r.ok THEN Nil
    ELSE NewError(IF r.errmsg = "" THEN "unspecified error" ELSE r.errmsg)

\* the *MongoError results: the nil pointer, and &r.MongoError of a reply
\* struct r that is still zero or that Next has filled
NilMerr == [nil |-> TRUE, Err |-> "", Updated |-> FALSE]
ZeroMerr == [nil |-> FALSE, Err |-> "", Updated |-> FALSE]
Merr(reply) == [nil |-> FALSE, Err |-> reply.err, Updated |-> reply.updated]
\* a *MongoError returned as the os.Error
MongoErr(m) == [k |-> "MongoError", s |-> m.Err]

\* Database.LastError(cmd).  e is what the connection does: e.ferr is the
\* error of Conn.Find, e.nerr the error of cursor.Next, e.reply the reply
\* that Next decodes.  The deferred cursor.Close() runs at each return that
\* follows a successful Find.
LastError(db, cmd, e) ==
    LET q     == IF cmd = NilCmd THEN DefaultLastErrorCmd ELSE cmd
        find  == [fn |-> "Find", ns |-> db.Name \o DollarCmd, cmd |-> q,
                  opts |-> runFindOptions]
        next  == [fn |-> "Next"]
        close == [fn |-> "Close"]
    IN  IF e.ferr # Nil
        THEN [merr |-> ZeroMerr, err |-> e.ferr, calls |-> <<find>>]
        ELSE IF e.nerr # Nil
        THEN [merr |-> ZeroMerr, err |-> e.nerr, calls |-> <<find, next, close>>]
        ELSE IF Error(e.reply) # Nil
        THEN [merr |-> Merr(e.reply), err |-> Error(e.reply),
              calls |-> <<find, next, close>>]
        ELSE IF e.reply.err # ""
        THEN [merr |-> Merr(e.reply), err |-> MongoErr(Merr(e.reply)),
              calls |-> <<find, next, close>>]
        ELSE [merr |-> Merr(e.reply), err |-> Nil, calls |-> <<find, next, close>>]

\* a checkError that asks for the acknowledge whatever the mutation returned
checkError_AlwaysAsks(c, err, e) ==
    IF c.LastErrorCmd = NilCmd THEN [merr |-> NilMerr, err |-> err, calls |-> <<>>]
    ELSE LastError(Db(c), c.LastErrorCmd, e)

\* Collection.checkError(err): err is what the transport mutation returned
checkError(c, err, e) ==
    IF err # Nil THEN [merr |-> NilMerr, err |-> err, calls |-> <<>>]
    ELSE IF c.LastErrorCmd = NilCmd THEN [merr |-> NilMerr, err |-> Nil, calls |-> <<>>]
    ELSE LastError(Db(c), c.LastErrorCmd, e)

\* Collection.Insert(documents...)
Insert(c, doc, e) ==
    LET r == checkError(c, e.terr, e)
    IN  [calls |-> <<[fn |-> "Insert", ns |-> c.Namespace, doc |-> doc]>> \o r.calls,
         err |-> r.err]

\* an Update that returns what the acknowledge returned
Update_NoSentinel(c, e) ==
    LET r == checkError(c, e.terr, e)
    IN  [calls |-> <<[fn |-> "Update", ns |-> c.Namespace, opts |-> "nil"]>> \o r.calls,
         err |-> r.err]

\* Collection.Update(selector, update)
Update(c, e) ==
    LET r == checkError(c, e.terr, e)
    IN  [calls |-> <<[fn |-> "Update", ns |-> c.Namespace, opts |-> "nil"]>> \o r.calls,
         err |-> IF ~r.merr.nil /\ r.err = Nil /\ ~r.merr.Updated THEN ErrNotFound
                 ELSE r.err]

\* Collection.UpdateAll(selector, update)
UpdateAll(c, e) ==
    LET r == checkError(c, e.terr, e)
    IN  [calls |-> <<[fn |-> "Update", ns |-> c.Namespace, opts |-> "updateAllOptions"]>>
                     \o r.calls,
         err |-> IF ~r.merr.nil /\ r.err = Nil /\ ~r.merr.Updated THEN ErrNotFound
                 ELSE r.err]

\* Collection.Upsert(selector, update)
Upsert(c, e) ==
    LET r == checkError(c, e.terr, e)
    IN  [calls |-> <<[fn |-> "Update", ns |-> c.Namespace, opts |-> "upsertOptions"]>>
                     \o r.calls,
         err |-> r.err]

\* Collection.RemoveFirst(selector)
RemoveFirst(c, e) ==
    LET r == checkError(c, e.terr, e)
    IN  [calls |-> <<[fn |-> "Remove", ns |-> c.Namespace, opts |-> "removeFirstOptions"]>>
                     \o r.calls,
         err |-> r.err]

\* Collection.Remove(selector)
Remove(c, e) ==
    LET r == checkError(c, e.terr, e)
    IN  [calls |-> <<[fn |-> "Remove", ns |-> c.Namespace, opts |-> "nil"]>> \o r.calls,
         err |-> r.err]

Digits == <<"0", "1", "2", "3", "4", "5", "6", "7", "8", "9">>

RECURSIVE Utoa(_)
\* the decimal digits of n >= 0
Utoa(n) ==
    IF n < 10 THEN <<Digits[n + 1]>> ELSE Utoa(n \div 10) \o <<Digits[(n % 10) + 1]>>

\* an Itoa that drops the sign
Itoa_Unsigned(n) == IF n < 0 THEN Utoa(0 - n) ELSE Utoa(n)

\* strconv.Itoa(n)
Itoa(n) == IF n < 0 THEN <<"-">> \o Utoa(0 - n) ELSE Utoa(n)

RECURSIVE IndexNameLoop(_, _, _)
\* the loop of IndexName from key i on, buf being the buffer so far; a
\* direction that is neither an int nor a string makes it panic
IndexNameLoop(keys, i, buf) ==
    IF i > Len(keys) THEN [panic |-> FALSE, s |-> buf]
    ELSE LET key == keys[i]
             b1  == IF i # 1 THEN buf \o <<"_">> ELSE buf
             b2  == b1 \o key.Key \o <<"_">>
         IN  IF key.Value.t = "int"
             THEN IndexNameLoop(keys, i + 1, b2 \o Itoa(key.Value.v))
             ELSE IF key.Value.t = "string"
             THEN IndexNameLoop(keys, i + 1, b2 \o key.Value.v)
             ELSE [panic |-> TRUE, s |-> <<>>]

\* IndexName(keys)
IndexName(keys) == IndexNameLoop(keys, 1, <<>>)

\* the *IndexOptions nil
NilOptions == [nil |-> TRUE, Name |-> <<>>]

\* Collection.CreateIndex(keys, options).  c is the method's copy of the
\* receiver (a value receiver): the assignment to c.LastErrorCmd changes the
\* copy c1, and the caller's Collection (self) stays as it was.
CreateIndex(c, keys, options, e) ==
    LET name0 == IF options.nil THEN <<>> ELSE options.Name
        gen   == IndexName(keys)
        index == [key |-> keys, ns |-> c.Namespace,
                  name |-> IF name0 = <<>> THEN gen.s ELSE name0]
        c1    == IF c.LastErrorCmd = NilCmd
                 THEN [c EXCEPT !.LastErrorCmd = DefaultLastErrorCmd] ELSE c
        r     == Insert(C(Db(c1), SystemIndexes), index, e)
    IN  IF name0 = <<>> /\ gen.panic
        THEN [calls |-> <<>>, err |-> Nil, panic |-> TRUE, self |-> c]
        ELSE [calls |-> r.calls, err |-> r.err, panic |-> FALSE, self |-> c]

\* Database.Run(cmd, result).  e.bad: Decode of the reply into the
\* CommandResponse fails (a field of a kind the decoder cannot convert);
\* e.rbad: Decode of the reply into result fails.  written: the reply was
\* decoded into result.
Run(db, cmd, result, e) ==
    LET find == [fn |-> "Find", ns |-> db.Name \o DollarCmd, cmd |-> cmd,
                 opts |-> runFindOptions]
        next == [fn |-> "Next"]
    IN  IF e.ferr # Nil
        THEN [calls |-> <<find>>, err |-> e.ferr, written |-> FALSE]
        ELSE IF e.nerr # Nil
        THEN [calls |-> <<find, next>>, err |-> e.nerr, written |-> FALSE]
        ELSE IF e.bad
        THEN [calls |-> <<find, next>>, err |-> DecodeErr, written |-> FALSE]
        ELSE IF Error(e.reply) # Nil
        THEN [calls |-> <<find, next>>, err |-> Error(e.reply), written |-> FALSE]
        ELSE IF result # "nil"
        THEN [calls |-> <<find, next>>, err |-> IF e.rbad THEN DecodeErr ELSE Nil,
              written |-> TRUE]
        ELSE [calls |-> <<find, next>>, err |-> Nil, written |-> FALSE]

----------------------------------------------------------------------------
(* The program that uses the facade *)

\* the database and the collections the program works on
DbName == <<"d", "b">>
CollNames == {<<"c">>, <<"c", ".", "e">>}
Cmds == {NilCmd, DefaultLastErrorCmd, CustomLastErrorCmd}

\* the replies to a command: the ok flag and errmsg of the CommandResponse,
\* err and updatedExisting of the MongoError
Replies ==
    [ok : BOOLEAN, errmsg : {"", "no such cmd"}, err : {"", "E11000 duplicate key"},
     updated : BOOLEAN]

OkReply == [ok |-> TRUE, errmsg |-> "", err |-> "", updated |-> FALSE]

\* what the connection does during one facade call: the transport mutation
\* fails; or Find fails; or Next fails; or Next delivers a reply, which
\* decodes or not
NoFault ==
    [terr |-> Nil, ferr |-> Nil, nerr |-> Nil, reply |-> OkReply, bad |-> FALSE,
     rbad |-> FALSE]

Envs ==
    {[NoFault EXCEPT !.terr = TransportErr], [NoFault EXCEPT !.ferr = TransportErr],
     [NoFault EXCEPT !.nerr = TransportErr]}
    \cup {[NoFault EXCEPT !.reply = r] : r \in Replies}

\* the same for a method that does not look at updatedExisting
PlainEnvs == {e \in Envs : ~e.reply.updated}

RunEnvs ==
    {[NoFault EXCEPT !.ferr = TransportErr], [NoFault EXCEPT !.nerr = TransportErr],
     [NoFault EXCEPT !.bad = TRUE], [NoFault EXCEPT !.rbad = TRUE]}
    \cup {[NoFault EXCEPT !.reply = r] : r \in {q \in Replies : q.err = "" /\ ~q.updated}}

IntDir(v) == [t |-> "int", v |-> v]
StrDir(v) == [t |-> "string", v |-> v]
FloatDir(v) == [t |-> "float", v |-> v]

\* the keys the program makes indexes on
KeySets ==
    {<<>>,
     <<[Key |-> <<"x">>, Value |-> IntDir(1)]>>,
     <<[Key |-> <<"x">>, Value |-> IntDir(1)], [Key |-> <<"y">>, Value |-> IntDir(0 - 1)]>>,
     <<[Key |-> <<"l", "o", "c">>, Value |-> StrDir(<<"2", "d">>)],
       [Key |-> <<"n">>, Value |-> IntDir(10)]>>,
     <<[Key |-> <<"x">>, Value |-> FloatDir(1)]>>}

OptionSets ==
    {NilOptions, [nil |-> FALSE, Name |-> <<>>], [nil |-> FALSE, Name |-> <<"i", "x">>]}

\* fac: the database and the Collection value the program holds, and the
\* facade call it made last: the method, its arguments (args.c: the receiver
\* as it was at the call), what the connection did (e), the calls the method
\* made on the connection, and what it returned
Done(op, args, e, out) ==
    [fac EXCEPT !.op = op, !.args = args, !.e = e, !.calls = out.calls, !.err = out.err,
                !.panic = FALSE, !.written = FALSE]

CursorVars == <<docs, scen, connOpen, stream, srv, cur, delivered, kills, post, drains, hn, last>>

CallInsert(e) ==
    /\ fac' = Done("Insert", [c |-> fac.coll], e, Insert(fac.coll, "doc", e))
    /\ UNCHANGED <<CursorVars, BsonVars>>

CallUpdate(e) ==
    /\ fac' = Done("Update", [c |-> fac.coll], e, Update(fac.coll, e))
    /\ UNCHANGED <<CursorVars, BsonVars>>

CallUpdateAll(e) ==
    /\ fac' = Done("UpdateAll", [c |-> fac.coll], e, UpdateAll(fac.coll, e))
    /\ UNCHANGED <<CursorVars, BsonVars>>

CallUpsert(e) ==
    /\ fac' = Done("Upsert", [c |-> fac.coll], e, Upsert(fac.coll, e))
    /\ UNCHANGED <<CursorVars, BsonVars>>

CallRemoveFirst(e) ==
    /\ fac' = Done("RemoveFirst", [c |-> fac.coll], e, RemoveFirst(fac.coll, e))
    /\ UNCHANGED <<CursorVars, BsonVars>>

CallRemove(e) ==
    /\ fac' = Done("Remove", [c |-> fac.coll], e, Remove(fac.coll, e))
    /\ UNCHANGED <<CursorVars, BsonVars>>

CallCreateIndex(keys, options, e) ==
    /\ LET out == CreateIndex(fac.coll, keys, options, e)
       IN  fac' = [Done("CreateIndex", [c |-> fac.coll, keys |-> keys, options |-> options],
                        e, out) EXCEPT !.coll = out.self, !.panic = out.panic]
    /\ UNCHANGED <<CursorVars, BsonVars>>

CallRun(cmd, result, e) ==
    /\ LET out == Run(fac.db, cmd, result, e)
       IN  fac' = [Done("Run", [db |-> fac.db, cmd |-> cmd, result |-> result], e, out)
                     EXCEPT !.written = out.written]
    /\ UNCHANGED <<CursorVars, BsonVars>>

\* the program sets the LastErrorCmd field of its Collection
SetLastErrorCmd(cmd) ==
    /\ cmd # fac.coll.LastErrorCmd
    /\ fac' = [Done("SetLastErrorCmd", [c |-> fac.coll], NoFault, [calls |-> <<>>, err |-> Nil])
                 EXCEPT !.coll.LastErrorCmd = cmd]
    /\ UNCHANGED <<CursorVars, BsonVars>>

\* the program has a Database and a Collection of it, got with Database.C
InitFacade ==
    /\ scen = "one"
    /\ docs = <<>>
    /\ connOpen = TRUE
    /\ stream = <<>>
    /\ srv = [i \in Cursors |-> [pos |-> 0, alive |-> FALSE]]
    /\ cur = [i \in Cursors |-> NoCursor]
    /\ delivered = [i \in Cursors |-> <<>>]
    /\ kills = [i \in Cursors |-> 0]
    /\ post = [i \in Cursors |-> <<>>]
    /\ drains = <<>>
    /\ hn = [i \in Cursors |-> FALSE]
    /\ last = NoCall
    /\ oid = NoOid
    /\ si = NoStructInfo
    /\ dec = NoDecode
    /\ \E name \in CollNames, cmd \in Cmds :
          LET db == [Name |-> DbName, LastErrorCmd |-> cmd]
          IN  fac = [db |-> db, coll |-> C(db, name), op |-> "none", args |-> [c |-> C(db, name)],
                     e |-> NoFault, calls |-> <<>>, err |-> Nil, panic |-> FALSE,
                     written |-> FALSE]

NextFacade ==
    \/ \E e \in PlainEnvs : CallInsert(e)
    \/ \E e \in Envs : CallUpdate(e)
    \/ \E e \in Envs : CallUpdateAll(e)
    \/ \E e \in Envs : CallUpsert(e)
    \/ \E e \in PlainEnvs : CallRemoveFirst(e)
    \/ \E e \in PlainEnvs : CallRemove(e)
    \/ \E keys \in KeySets, options \in OptionSets, e \in PlainEnvs :
          CallCreateIndex(keys, options, e)
    \/ \E cmd \in {"{ping: 1}", "{count: c}"}, result \in {"nil", "&result"}, e \in RunEnvs :
          CallRun(cmd, result, e)
    \/ \E cmd \in Cmds : SetLastErrorCmd(cmd)

SpecFacade == InitFacade /\ [][NextFacade]_vars

----------------------------------------------------------------------------
(* The facade: what the claims say *)

WriteOps == {"Insert", "Update", "UpdateAll", "Upsert", "RemoveFirst", "Remove"}

\* the transport primitive a write method issues
Mutation(op) ==
    IF op = "Insert" THEN "Insert"
    ELSE IF op \in {"Update", "UpdateAll", "Upsert"} THEN "Update"
    ELSE "Remove"

\* the places of the calls of the kinds fns among the calls of the last method
CallsOf(fns) == {k \in 1..Len(fac.calls) : fac.calls[k].fn \in fns}

\* write-ack was enabled on the receiver of the last call
AckEnabled == fac.args.c.LastErrorCmd # NilCmd

\* the get-last-error command succeeded: it was sent, its reply was read,
\* and the reply's ok flag is true
AckSucceeded == fac.e.ferr = Nil /\ fac.e.nerr = Nil /\ fac.e.reply.ok

\* the error of the command: the transport error of its Find or Next, the
\* command error of a reply that is not ok, the write error of a reply whose
\* err is not empty, or nil
AckResult ==
    IF fac.e.ferr # Nil THEN fac.e.ferr
    ELSE IF fac.e.nerr # Nil THEN fac.e.nerr
    ELSE IF ~fac.e.reply.ok
    THEN [k |-> "errorString",
          s |-> IF fac.e.reply.errmsg = "" THEN "unspecified error" ELSE fac.e.reply.errmsg]
    ELSE IF fac.e.reply.err # "" THEN [k |-> "MongoError", s |-> fac.e.reply.err]
    ELSE Nil

\* C7 (not found): Update and UpdateAll return ErrNotFound exactly when
\* write-ack is enabled, the transport update succeeded, the get-last-error
\* command succeeded with an empty err and reported updatedExisting = false;
\* with write-ack disabled they return nil whenever the transport update
\* succeeds; Upsert never returns ErrNotFound.
C7_UpdateNotFound ==
    /\ fac.op \in {"Update", "UpdateAll"} =>
          /\ fac.err = ErrNotFound <=>
                (AckEnabled /\ fac.e.terr = Nil /\ AckSucceeded
                   /\ fac.e.reply.err = "" /\ ~fac.e.reply.updated)
          /\ (~AckEnabled /\ fac.e.terr = Nil) => fac.err = Nil
    /\ fac.op = "Upsert" => fac.err # ErrNotFound

\* UpdateAll matched nothing and said so
C7_Witness ==
    /\ fac.op = "UpdateAll" /\ fac.err = ErrNotFound
    /\ fac.args.c.LastErrorCmd = CustomLastErrorCmd

\* the part of the write sequence that comes before the result of the
\* acknowledge: one transport mutation, first, on the collection's namespace;
\* its error returned as it is and nothing else sent; nothing else sent and
\* nil returned when it succeeds with write-ack disabled; otherwise one
\* get-last-error command, the configured one, on <db>.$cmd after it
WriteSequence ==
    fac.op \in WriteOps =>
        /\ CallsOf({"Insert", "Update", "Remove"}) = {1}
        /\ fac.calls[1].fn = Mutation(fac.op)
        /\ fac.calls[1].ns = fac.args.c.Namespace
        /\ fac.e.terr # Nil => (fac.err = fac.e.terr /\ Len(fac.calls) = 1)
        /\ (fac.e.terr = Nil /\ ~AckEnabled) => (fac.err = Nil /\ Len(fac.calls) = 1)
        /\ (fac.e.terr = Nil /\ AckEnabled) =>
              /\ CallsOf({"Find"}) = {2}
              /\ fac.calls[2].ns = fac.db.Name \o <<".", "$", "c", "m", "d">>
              /\ fac.calls[2].cmd = fac.args.c.LastErrorCmd

\* C8 as the claim states it: ... and the error of the get-last-error command
\* is the result of each of the six write methods.
C8_Original ==
    /\ WriteSequence
    /\ (fac.op \in WriteOps /\ fac.e.terr = Nil /\ AckEnabled) => fac.err = AckResult

\* C8 (write sequence), amended: for Insert, Update, UpdateAll, Upsert,
\* RemoveFirst and Remove the transport mutation is issued first and once; its
\* error is returned as it is with no command issued; with LastErrorCmd nil no
\* command is issued and nil is returned; otherwise one get-last-error command
\* is run on <db>.$cmd after the mutation and its error is the result, except
\* that Update and UpdateAll return ErrNotFound when the command returns no
\* error and reports updatedExisting = false.
C8_WriteSequence ==
    /\ WriteSequence
    /\ (fac.op \in WriteOps /\ fac.e.terr = Nil /\ AckEnabled) =>
          fac.err = IF fac.op \in {"Update", "UpdateAll"} /\ AckResult = Nil
                         /\ ~fac.e.reply.updated
                    THEN ErrNotFound
                    ELSE AckResult

\* a Remove whose acknowledge reported a write error
C8_Witness ==
    /\ fac.op = "Remove" /\ fac.err = [k |-> "MongoError", s |-> "E11000 duplicate key"]
    /\ Len(fac.calls) = 4

\* a direction as the index name spells it
DirName(v) ==
    IF v = IntDir(1) THEN <<"1">>
    ELSE IF v = IntDir(0 - 1) THEN <<"-", "1">>
    ELSE IF v = IntDir(10) THEN <<"1", "0">>
    ELSE v.v

RECURSIVE Joined(_)
\* k1_v1_k2_v2_...
Joined(keys) ==
    IF keys = <<>> THEN <<>>
    ELSE Head(keys).Key \o <<"_">> \o DirName(Head(keys).Value)
           \o (IF Len(keys) > 1 THEN <<"_">> \o Joined(Tail(keys)) ELSE <<>>)

\* the index has a name: one is given, or every direction is an integer or
\* a string
Nameable ==
    \/ ~fac.args.options.nil /\ fac.args.options.Name # <<>>
    \/ \A k \in 1..Len(fac.args.keys) : fac.args.keys[k].Value.t \in {"int", "string"}

\* one insert into <db>.system.indexes of the descriptor with the
\* collection's namespace and the name given or made, and the caller's
\* Collection as it was
IndexInsert ==
    /\ ~fac.panic
    /\ CallsOf({"Insert", "Update", "Remove"}) = {1}
    /\ fac.calls[1].fn = "Insert"
    /\ fac.calls[1].ns = fac.db.Name \o <<".">> \o SystemIndexes
    /\ fac.calls[1].doc.ns = fac.args.c.Namespace
    /\ fac.calls[1].doc.key = fac.args.keys
    /\ fac.calls[1].doc.name =
          IF ~fac.args.options.nil /\ fac.args.options.Name # <<>>
          THEN fac.args.options.Name
          ELSE Joined(fac.args.keys)
    /\ fac.coll = fac.args.c

\* the write-ack command was run for the insert, the default one when the
\* collection has none, and its error was returned
IndexAck ==
    /\ CallsOf({"Find"}) = {2}
    /\ fac.calls[2].ns = fac.db.Name \o <<".", "$", "c", "m", "d">>
    /\ fac.calls[2].cmd = IF AckEnabled THEN fac.args.c.LastErrorCmd ELSE DefaultLastErrorCmd
    /\ fac.err = AckResult

\* C9 as the claim states it: ... the write-ack command is always run for
\* the insert and its error is returned.
C9_Original ==
    (fac.op = "CreateIndex" /\ Nameable) => (IndexInsert /\ IndexAck)

\* C9 (CreateIndex), amended: for keys whose directions are integers or
\* strings, or with a name given, CreateIndex performs one insert into
\* <db>.system.indexes of a descriptor whose ns is the collection's namespace
\* and whose name is opts.Name when not empty and k1_v1_k2_v2_... otherwise;
\* when that transport insert succeeds the write-ack command is run (the
\* default get-last-error when LastErrorCmd is nil) and its error is
\* returned; when the transport insert fails its error is returned and no
\* command is run; the caller's Collection, its LastErrorCmd included, is
\* left as it was.
C9_CreateIndex ==
    (fac.op = "CreateIndex" /\ Nameable) =>
        /\ IndexInsert
        /\ fac.e.terr = Nil => IndexAck
        /\ fac.e.terr # Nil => (fac.err = fac.e.terr /\ Len(fac.calls) = 1)

\* an index on x up, y down, of a collection with write-ack disabled: the
\* name was made, the default command asked, and the collection kept nil
C9_Witness ==
    /\ fac.op = "CreateIndex"
    /\ fac.args.options.nil
    /\ fac.calls # <<>>
    /\ fac.calls[1].doc.name = <<"x", "_", "1", "_", "y", "_", "-", "1">>
    /\ Len(fac.calls) = 4
    /\ fac.calls[2].cmd = DefaultLastErrorCmd
    /\ fac.coll.LastErrorCmd = NilCmd
    /\ fac.err = Nil

\* C10 (Run): Database.Run issues one find on <db>.$cmd with the command and
\* reads one reply (none when the find itself fails); the transport error of
\* Find or of Next is returned as it is; when the ok flag of the reply is
\* false the error carries the server's errmsg, 'unspecified error' when
\* that is empty, and result is not written; the reply is decoded into
\* result when, and only when, ok is true and result is not nil.
C10_Run ==
    fac.op = "Run" =>
        /\ CallsOf({"Find"}) = {1}
        /\ fac.calls[1].ns = fac.db.Name \o <<".", "$", "c", "m", "d">>
        /\ fac.calls[1].cmd = fac.args.cmd
        /\ CallsOf({"Next"}) = IF fac.e.ferr = Nil THEN {2} ELSE {}
        /\ CallsOf({"Insert", "Update", "Remove"}) = {}
        /\ fac.e.ferr # Nil => fac.err = fac.e.ferr
        /\ (fac.e.ferr = Nil /\ fac.e.nerr # Nil) => fac.err = fac.e.nerr
        /\ (fac.e.ferr = Nil /\ fac.e.nerr = Nil /\ ~fac.e.bad /\ ~fac.e.reply.ok) =>
              /\ fac.err.k = "errorString"
              /\ fac.err.s = IF fac.e.reply.errmsg = "" THEN "unspecified error"
                             ELSE fac.e.reply.errmsg
              /\ ~fac.written
        /\ fac.written <=>
              (fac.e.ferr = Nil /\ fac.e.nerr = Nil /\ ~fac.e.bad /\ fac.e.reply.ok
                 /\ fac.args.result # "nil")

\* the server said no and gave no reason, the caller had asked for the result
C10_Witness ==
    /\ fac.op = "Run" /\ fac.args.result # "nil"
    /\ fac.e.ferr = Nil /\ fac.e.nerr = Nil /\ ~fac.e.bad
    /\ ~fac.e.reply.ok /\ fac.e.reply.errmsg = ""
    /\ fac.err = [k |-> "errorString", s |-> "unspecified error"]

----------------------------------------------------------------------------
(* bson.go: the ObjectId.  An ObjectId is its 12 bytes.  A byte of the      *)
(* model has ByteBits bits (8 in the program), so that the 4 bytes of the   *)
(* time and the 8 bytes of the counter wrap at numbers the checker can      *)
(* count to; every shift of the code is by whole bytes.                     *)

ByteBits == 2

RECURSIVE Pow(_, _)
Pow(b, n) == IF n = 0 THEN 1 ELSE b * Pow(b, n - 1)

\* the number of values of a byte, of the 4 time bytes, of the uint64 counter
ByteMod == Pow(2, ByteBits)
TimeMod == Pow(ByteMod, 4)
CounterMod == Pow(ByteMod, 8)

\* byte(x >> (8 * k)): x shifted right by k bytes (an arithmetic shift for a
\* negative int64), cut to its low byte
ByteAt(x, k) == (x \div Pow(ByteMod, k)) % ByteMod

\* a newObjectId that writes the time low byte first
newObjectId_LowFirst(t, c) ==
    <<ByteAt(t, 0), ByteAt(t, 1), ByteAt(t, 2), ByteAt(t, 3),
      ByteAt(c, 7), ByteAt(c, 6), ByteAt(c, 5), ByteAt(c, 4),
      ByteAt(c, 3), ByteAt(c, 2), ByteAt(c, 1), ByteAt(c, 0)>>

\* newObjectId(t int64, c uint64)
newObjectId(t, c) ==
    <<ByteAt(t, 3), ByteAt(t, 2), ByteAt(t, 1), ByteAt(t, 0),
      ByteAt(c, 7), ByteAt(c, 6), ByteAt(c, 5), ByteAt(c, 4),
      ByteAt(c, 3), ByteAt(c, 2), ByteAt(c, 1), ByteAt(c, 0)>>

\* MaxObjectIdForTime(t): the counter 0xffffffffffffffff
MaxObjectIdForTime(t) == newObjectId(t, CounterMod - 1)

\* MinObjectIdForTime(t)
MinObjectIdForTime(t) == newObjectId(t, 0)

\* ObjectId.CreationTime()
CreationTime(id) ==
    IF Len(id) # 12 THEN 0
    ELSE id[1] * Pow(ByteMod, 3) + id[2] * Pow(ByteMod, 2) + id[3] * ByteMod + id[4]

\* nextOidCounter() run alone: counter is oidCounter before the call, r what
\* the random source returns if it is read.  read: the source was read.
nextOidCounter(counter, r) ==
    LET seeded == IF counter = 0 THEN r ELSE counter
        c1     == (seeded + 1) % CounterMod
    IN  [counter |-> c1, read |-> counter = 0, ret |-> c1]

\* NewObjectId calls the program makes in a row
MaxIds == 3

\* what time.Seconds() returns, or the program passes as t
Times == {0 - 1, 1, TimeMod - 1, TimeMod}

\* what the random source returns
Seeds == {0, 1, CounterMod - 2, CounterMod - 1}

\* the driver core, which the bson part does not touch, at rest
DriverAtRest ==
    /\ scen = "one"
    /\ docs = <<>>
    /\ connOpen = TRUE
    /\ stream = <<>>
    /\ srv = [i \in Cursors |-> [pos |-> 0, alive |-> FALSE]]
    /\ cur = [i \in Cursors |-> NoCursor]
    /\ delivered = [i \in Cursors |-> <<>>]
    /\ kills = [i \in Cursors |-> 0]
    /\ post = [i \in Cursors |-> <<>>]
    /\ drains = <<>>
    /\ hn = [i \in Cursors |-> FALSE]
    /\ last = NoCall
    /\ fac = NoFacade

DriverVars == <<CursorVars, fac>>

\* oid: oidCounter, how often the random source was read, the NewObjectId
\* calls so far (the time, the counter returned, the id), and the call made
\* last: its name, its t, the id it returned or was made on, and what
\* CreationTime returned
InitOid ==
    /\ DriverAtRest
    /\ si = NoStructInfo
    /\ dec = NoDecode
    /\ oid = [op |-> "start", counter |-> 0, reads |-> 0, made |-> <<>>, t |-> 0,
              id |-> <<>>, ct |-> 0]

\* NewObjectId(), time.Seconds() returning t
CallNewObjectId(t, r) ==
    /\ Len(oid.made) < MaxIds
    /\ LET n  == nextOidCounter(oid.counter, r)
           id == newObjectId(t, n.ret)
       IN  oid' = [oid EXCEPT !.op = "NewObjectId", !.counter = n.counter,
                              !.reads = @ + (IF n.read THEN 1 ELSE 0),
                              !.made = Append(@, [t |-> t, c |-> n.ret, id |-> id]),
                              !.t = t, !.id = id]
    /\ UNCHANGED <<DriverVars, si, dec>>

CallMinObjectIdForTime(t) ==
    /\ oid' = [oid EXCEPT !.op = "MinObjectIdForTime", !.t = t, !.id = MinObjectIdForTime(t)]
    /\ UNCHANGED <<DriverVars, si, dec>>

CallMaxObjectIdForTime(t) ==
    /\ oid' = [oid EXCEPT !.op = "MaxObjectIdForTime", !.t = t, !.id = MaxObjectIdForTime(t)]
    /\ UNCHANGED <<DriverVars, si, dec>>

\* id.CreationTime() on the id the last call returned
CallCreationTime ==
    /\ oid.op \in {"NewObjectId", "MinObjectIdForTime", "MaxObjectIdForTime"}
    /\ oid' = [oid EXCEPT !.op = "CreationTime", !.ct = CreationTime(oid.id)]
    /\ UNCHANGED <<DriverVars, si, dec>>

NextOid ==
    \/ \E t \in Times, r \in Seeds : CallNewObjectId(t, r)
    \/ \E t \in Times : CallMinObjectIdForTime(t)
    \/ \E t \in Times : CallMaxObjectIdForTime(t)
    \/ CallCreationTime

SpecOid == InitOid /\ [][NextOid]_vars

\* the bytes of s read big-endian
RECURSIVE BigEndian(_)
BigEndian(s) == IF s = <<>> THEN 0 ELSE BigEndian(SubSeq(s, 1, Len(s) - 1)) * ByteMod + s[Len(s)]

\* C11 (ObjectID uniqueness): for every seed the random source can return
\* and every N, the counter portions (bytes 4..11) of the ids of N successive
\* NewObjectId calls are pairwise distinct, each the one before plus one, and
\* the counter is seeded from the random source only once.
C11_CounterSequence ==
    oid.op # "none" =>
        /\ oid.reads <= 1
        /\ \A k \in 1..(Len(oid.made) - 1) :
              BigEndian(SubSeq(oid.made[k + 1].id, 5, 12))
                 = (BigEndian(SubSeq(oid.made[k].id, 5, 12)) + 1) % CounterMod
        /\ \A j \in 1..Len(oid.made), k \in 1..Len(oid.made) :
              j # k => SubSeq(oid.made[j].id, 5, 12) # SubSeq(oid.made[k].id, 5, 12)

RECURSIVE BytesLeq(_, _)
\* a is at most b, byte by byte from the first
BytesLeq(a, b) ==
    \/ a = <<>>
    \/ a[1] < b[1]
    \/ a[1] = b[1] /\ BytesLeq(Tail(a), Tail(b))

\* what C12 says of the counter bytes and of the bounds
CounterPart ==
    /\ Len(oid.id) = 12
    /\ oid.op = "NewObjectId" =>
          BigEndian(SubSeq(oid.id, 5, 12)) = oid.made[Len(oid.made)].c
    /\ oid.op = "MinObjectIdForTime" => \A k \in 5..12 : oid.id[k] = 0
    /\ oid.op = "MaxObjectIdForTime" => \A k \in 5..12 : oid.id[k] = ByteMod - 1
    /\ \A k \in 1..Len(oid.made) :
          /\ BytesLeq(MinObjectIdForTime(oid.made[k].t), oid.made[k].id)
          /\ BytesLeq(oid.made[k].id, MaxObjectIdForTime(oid.made[k].t))

\* C12 as the claim states it: for every seconds value t, bytes 0..3 read
\* big-endian equal t and CreationTime returns t ...
C12_Original ==
    oid.op \in {"NewObjectId", "MinObjectIdForTime", "MaxObjectIdForTime", "CreationTime"} =>
        /\ CounterPart
        /\ BigEndian(SubSeq(oid.id, 1, 4)) = oid.t
        /\ oid.op = "CreationTime" => oid.ct = oid.t

\* C12 (ObjectID time prefix), amended: for every seconds value t that four
\* bytes hold (0 <= t < 2^32), bytes 0..3 of the id read big-endian equal t
\* and CreationTime returns t; for any other t they equal t modulo 2^32;
\* bytes 4..11 read big-endian equal the counter c; MinObjectIdForTime(t) has
\* counter bytes all zero and MaxObjectIdForTime(t) all ones, and every id
\* generated with time t lies bytewise between them.
C12_TimePrefix ==
    oid.op \in {"NewObjectId", "MinObjectIdForTime", "MaxObjectIdForTime", "CreationTime"} =>
        /\ CounterPart
        /\ BigEndian(SubSeq(oid.id, 1, 4)) = oid.t % TimeMod
        /\ (0 <= oid.t /\ oid.t < TimeMod) => BigEndian(SubSeq(oid.id, 1, 4)) = oid.t
        /\ oid.op = "CreationTime" => oid.ct = oid.t % TimeMod

\* CreationTime gave back the largest time that four bytes hold, from a
\* generated id
C12_Witness ==
    /\ oid.op = "CreationTime" /\ oid.t = TimeMod - 1 /\ oid.ct = TimeMod - 1
    /\ oid.made # <<>> /\ oid.id = oid.made[Len(oid.made)].id

----------------------------------------------------------------------------
(* nextOidCounter called from several goroutines.  Each goroutine makes one *)
(* call; a step is one statement of the function.                           *)

MaxGoroutines == 3

Goroutines == 1..MaxGoroutines

\* nobody holds oidLock
Unlocked == 0

\* oid: oidCounter, the holder of oidLock, where each goroutine stands in
\* nextOidCounter, the goroutines that read the random source, and the
\* values returned in the order of the increments
InitOidConc ==
    /\ DriverAtRest
    /\ si = NoStructInfo
    /\ dec = NoDecode
    /\ oid = [op |-> "goroutines", counter |-> 0, lock |-> Unlocked,
              pc |-> [g \in Goroutines |-> "call"], seeders |-> {},
              ret |-> [g \in Goroutines |-> 0], rets |-> <<>>]

\* oidLock.Lock()
OidLock(g) ==
    /\ oid.pc[g] = "call"
    /\ oid.lock = Unlocked
    /\ oid' = [oid EXCEPT !.lock = g, !.pc[g] = "seed"]
    /\ UNCHANGED <<DriverVars, si, dec>>

\* if oidCounter == 0 { binary.Read(rand.Reader, binary.BigEndian, &oidCounter) }
OidSeed(g, r) ==
    /\ oid.pc[g] = "seed"
    /\ oid.counter = 0
    /\ oid' = [oid EXCEPT !.counter = r, !.seeders = @ \cup {g}, !.pc[g] = "add"]
    /\ UNCHANGED <<DriverVars, si, dec>>

\* the same statement when oidCounter is not 0
OidSeeded(g) ==
    /\ oid.pc[g] = "seed"
    /\ oid.counter # 0
    /\ oid' = [oid EXCEPT !.pc[g] = "add"]
    /\ UNCHANGED <<DriverVars, si, dec>>

\* oidCounter += 1; return oidCounter
OidAdd(g) ==
    /\ oid.pc[g] = "add"
    /\ LET c == (oid.counter + 1) % CounterMod
       IN  oid' = [oid EXCEPT !.counter = c, !.ret[g] = c, !.rets = Append(@, c),
                              !.pc[g] = "unlock"]
    /\ UNCHANGED <<DriverVars, si, dec>>

\* the deferred oidLock.Unlock()
OidUnlock(g) ==
    /\ oid.pc[g] = "unlock"
    /\ oid' = [oid EXCEPT !.lock = Unlocked, !.pc[g] = "done"]
    /\ UNCHANGED <<DriverVars, si, dec>>

NextOidConc ==
    \E g \in Goroutines :
        \/ OidLock(g)
        \/ \E r \in Seeds : OidSeed(g, r)
        \/ OidSeeded(g)
        \/ OidAdd(g)
        \/ OidUnlock(g)

SpecOidConc == InitOidConc /\ [][NextOidConc]_vars

\* C20 (concurrent ObjectID generation): when several goroutines call
\* NewObjectId, the counter is seeded by exactly one of them, every call
\* returns a distinct counter, and the values returned are consecutive: no
\* increment is lost or duplicated.
C20_ConcurrentCounter ==
    oid.op = "goroutines" =>
        /\ Cardinality(oid.seeders) <= 1
        /\ oid.rets # <<>> => Cardinality(oid.seeders) = 1
        /\ \A j \in 1..Len(oid.rets), k \in 1..Len(oid.rets) : j # k => oid.rets[j] # oid.rets[k]
        /\ \A k \in 1..(Len(oid.rets) - 1) : oid.rets[k + 1] = (oid.rets[k] + 1) % CounterMod

----------------------------------------------------------------------------
(* bson.go: compileStructInfo.  A struct type is the sequence of its fields *)
(* in declaration order; a field is a named field (exported or not) or an   *)
(* embedded struct.                                                         *)

\* named fields a struct type declares in all, embedded structs included
MaxFields == 3

\* how deep structs are embedded
MaxDepth == 2

\* the names of fields (after the bson tag has been applied)
FieldDecls == {[kind |-> "field", name |-> "a", exported |-> TRUE],
               [kind |-> "field", name |-> "b", exported |-> TRUE],
               [kind |-> "field", name |-> "a", exported |-> FALSE]}

RECURSIVE StructsOf(_, _)
RECURSIVE FieldsOf(_, _)
\* the fields with k named fields in all, in a struct that embeds d deep
FieldsOf(d, k) ==
    (IF k = 1 THEN FieldDecls ELSE {})
    \cup (IF d > 0 THEN {[kind |-> "embedded", type |-> e] : e \in StructsOf(d - 1, k)} ELSE {})
\* the struct types with n named fields in all that embed d deep
StructsOf(d, n) ==
    IF n = 0 THEN {<<>>}
    ELSE UNION {{<<f>> \o r : f \in FieldsOf(d, k), r \in StructsOf(d, n - k)} : k \in 1..n}

\* the struct types of up to fields named fields in all that embed up to depth deep
StructTypes(depth, fields) == UNION {StructsOf(depth, n) : n \in 1..fields}

\* d = 1 << 30 when the name has no depth yet
NoDepth == 1073741824

\* an empty map[string]...
EmptyMap == [n \in {} |-> 0]

\* a by-name map with the entry of name n deleted
Delete(m, n) == [x \in DOMAIN m \ {n} |-> m[x]]

\* l with the descriptors named n filtered out
RECURSIVE Filter(_, _)
Filter(l, n) ==
    IF l = <<>> THEN <<>>
    ELSE IF l[1].name = n THEN Filter(Tail(l), n) ELSE <<l[1]>> \o Filter(Tail(l), n)

\* the default case of the loop of compileStructInfo: the named field at
\* position i (from 0), in a struct reached through index
compileField(name, i, depth, index, s) ==
    LET d == IF name \in DOMAIN depth THEN depth[name] ELSE NoDepth
    IN  IF Len(index) = d
        THEN [depth |-> depth, m |-> Delete(s.m, name), l |-> Filter(s.l, name)]
        ELSE IF Len(index) < d
        THEN LET fi == [name |-> name, index |-> Append(index, i)]
             IN  [depth |-> (name :> Len(index)) @@ depth,
                  m |-> (name :> fi) @@ s.m,
                  l |-> Append(s.l, fi)]
        ELSE [depth |-> depth, m |-> s.m, l |-> s.l]

RECURSIVE compileStructInfo(_, _, _, _)
RECURSIVE compileFrom(_, _, _, _, _)
\* the loop of compileStructInfo from field i (from 1) on; depth, m and l are
\* shared by all the calls, so they are passed on from field to field
compileFrom(t, i, depth, index, s) ==
    IF i > Len(t) THEN [depth |-> depth, m |-> s.m, l |-> s.l]
    ELSE LET f == t[i]
             after == IF f.kind = "embedded"
                      THEN compileStructInfo(f.type, depth, Append(index, i - 1), s)
                      ELSE IF ~f.exported
                      THEN [depth |-> depth, m |-> s.m, l |-> s.l]
                      ELSE compileField(f.name, i - 1, depth, index, s)
         IN  compileFrom(t, i + 1, after.depth, index, after)

compileStructInfo(t, depth, index, s) == compileFrom(t, 1, depth, index, s)

\* structInfo.FieldInfo(name): si.m[name], nil without an entry
NilFieldInfo == [name |-> "", index |-> <<>>]
FieldInfo(s, name) == IF name \in DOMAIN s.m THEN s.m[name] ELSE NilFieldInfo

\* si: the struct type t, the by-name map m and the ordered list l compiled
\* for it, and the last lookup by name
InitStruct ==
    /\ DriverAtRest
    /\ oid = NoOid
    /\ dec = NoDecode
    /\ \E t \in StructTypes(MaxDepth, MaxFields) :
          si = [op |-> "type", t |-> t, m |-> EmptyMap, l |-> <<>>,
                name |-> "", found |-> NilFieldInfo]

\* compileStructInfo(t, make(map[string]int), nil, si)
CallCompileStructInfo ==
    /\ si.op = "type"
    /\ LET c == compileStructInfo(si.t, EmptyMap, <<>>, [m |-> EmptyMap, l |-> <<>>])
       IN  si' = [si EXCEPT !.op = "compiled", !.m = c.m, !.l = c.l]
    /\ UNCHANGED <<DriverVars, oid, dec>>

\* si.FieldInfo(name)
CallFieldInfo(name) ==
    /\ si.op \in {"compiled", "FieldInfo"}
    /\ si' = [si EXCEPT !.op = "FieldInfo", !.name = name, !.found = FieldInfo(si, name)]
    /\ UNCHANGED <<DriverVars, oid, dec>>

NextStruct ==
    \/ CallCompileStructInfo
    \/ \E name \in {"a", "b"} : CallFieldInfo(name)

SpecStruct == InitStruct /\ [][NextStruct]_vars

RECURSIVE Declared(_, _)
\* the exported named fields of t and of the structs it embeds, each with the
\* path of field positions that leads to it
Declared(t, index) ==
    UNION {IF t[i].kind = "embedded" THEN Declared(t[i].type, Append(index, i - 1))
           ELSE IF t[i].exported THEN {[name |-> t[i].name, index |-> Append(index, i - 1)]}
           ELSE {} : i \in 1..Len(t)}

\* the declarations of name n at the least depth
Shallowest(t, n) ==
    LET ds == {f \in Declared(t, <<>>) : f.name = n}
    IN  {f \in ds : \A g \in ds : Len(f.index) <= Len(g.index)}

\* C13 (field shadowing): for every struct type with embedded structs,
\* whatever the declaration order, compileStructInfo leaves at most one
\* descriptor per name; it is the strictly shallowest one and any deeper one
\* is absent; when two definitions share the shallowest depth the name is
\* absent; and the ordered list and the by-name map contain exactly the same
\* descriptors.
C13_Shadowing ==
    si.op \in {"compiled", "FieldInfo"} =>
        LET inList == {si.l[k] : k \in 1..Len(si.l)}
            inMap  == {si.m[n] : n \in DOMAIN si.m}
        IN  /\ \A j \in 1..Len(si.l), k \in 1..Len(si.l) : j # k => si.l[j].name # si.l[k].name
            /\ inList = inMap
            /\ \A n \in {"a", "b"} :
                  LET top == Shallowest(si.t, n)
                  IN  IF Cardinality(top) = 1
                      THEN /\ {f \in inList : f.name = n} = top
                           /\ n \in DOMAIN si.m /\ si.m[n] \in top
                      ELSE /\ {f \in inList : f.name = n} = {}
                           /\ n \notin DOMAIN si.m
            /\ si.op = "FieldInfo" => si.found = FieldInfo(si, si.name)

----------------------------------------------------------------------------
(* decode.go: the BSON decoder.  data is a sequence of bytes (0..255);     *)
(* offsets count from 0 as in the program, so byte data[i] of the program  *)
(* is data[i + 1] here.  An integer of the program is the sequence of its  *)
(* bytes, low byte first, in two's complement: what the machine holds.     *)

kindFloat == 1
kindString == 2
kindDocument == 3
kindArray == 4
kindBinary == 5
kindObjectId == 7
kindBool == 8
kindDateTime == 9
kindNull == 10
kindRegexp == 11
kindCode == 13
kindSymbol == 14
kindCodeWithScope == 15
kindInt32 == 16
kindTimestamp == 17
kindInt64 == 18
kindMinValue == 255
kindMaxValue == 127

\* the errors of the decoder
ErrEOD == [k |-> "ErrEOD", s |-> "bson: unexpected end of data when parsing BSON"]
ErrDocLength == NewError("bson: doc length wrong")
DecodeConvertError(kind, t) == [k |-> "DecodeConvertError", kind |-> kind, t |-> t]
DecodeTypeError(kind) == [k |-> "DecodeTypeError", kind |-> kind]
\* a run-time panic (index or slice bounds out of range, reflect), which is
\* no aborted{} value
RuntimePanic(what) == [k |-> "runtime panic", s |-> what]

\* int32(wire.Uint32(b)): the four bytes, low byte first, as a signed number
Int32(b) == b[1] + 256 * b[2] + 65536 * b[3] + 16777216 * (IF b[4] < 128 THEN b[4] ELSE b[4] - 256)

\* stands for every int from 2^31 on, which an int of 64 bits holds: the
\* program only adds small offsets to such a value and compares the sum with
\* len(data) or with an offset
Beyond == 1073741824

\* int(wire.Uint32(b)) where int has word bits
IntOfUint32(b, word) == IF b[4] < 128 \/ word = 32 THEN Int32(b) ELSE Beyond

\* abort(err), and a run-time panic: the first one ends the decoding
abort(d, err) == IF d.abort = Nil THEN [d EXCEPT !.abort = err] ELSE d

\* d.offset = o; back records that the offset went backward
SetOffset(d, o) == [d EXCEPT !.offset = o, !.back = @ \/ o < d.offset]

\* d.scanByte()
scanByte(d) ==
    IF d.abort # Nil THEN [d |-> d, r |-> 0]
    ELSE IF d.offset >= Len(d.data) THEN [d |-> abort(d, ErrEOD), r |-> 0]
    ELSE IF d.offset < 0 THEN [d |-> abort(d, RuntimePanic("index out of range")), r |-> 0]
    ELSE [d |-> SetOffset(d, d.offset + 1), r |-> d.data[d.offset + 1]]

\* d.scanSlice(n)
scanSlice(d, n) ==
    LET offset == d.offset + n
    IN  IF d.abort # Nil THEN [d |-> d, r |-> <<>>]
        ELSE IF offset > Len(d.data) THEN [d |-> abort(d, ErrEOD), r |-> <<>>]
        ELSE IF d.offset < 0 \/ d.offset > offset
        THEN [d |-> abort(d, RuntimePanic("slice bounds out of range")), r |-> <<>>]
        ELSE [d |-> SetOffset(d, offset), r |-> SubSeq(d.data, d.offset + 1, offset)]

\* d.scanKindName()
scanKindName(d) ==
    LET name(b) ==
            LET zeros == {i \in 0..(Len(d.data) - b.d.offset - 1) : d.data[b.d.offset + i + 1] = 0}
                i == CHOOSE i \in zeros : \A j \in zeros : i <= j
            IN  IF b.d.abort # Nil \/ b.r = 0 THEN [d |-> b.d, kind |-> 0, name |-> <<>>]
                ELSE IF zeros = {} THEN [d |-> abort(b.d, ErrEOD), kind |-> 0, name |-> <<>>]
                ELSE [d |-> SetOffset(b.d, b.d.offset + i + 1), kind |-> b.r,
                      name |-> SubSeq(d.data, b.d.offset + 1, b.d.offset + i)]
    IN  name(scanByte(d))

\* d.scanString()
scanString(d) ==
    LET terminator(s) ==
            IF s.d.abort # Nil THEN [d |-> s.d, r |-> <<>>]
            ELSE [d |-> SetOffset(s.d, s.d.offset + 1), r |-> s.r]
        bytes(n) ==
            IF n.d.abort # Nil THEN [d |-> n.d, r |-> <<>>]
            ELSE terminator(scanSlice(n.d, IntOfUint32(n.r, d.word) - 1))
    IN  bytes(scanSlice(d, 4))

\* d.scanBinary(), without the subtype, which no caller uses
scanBinary(d) ==
    LET bytes(n) ==
            IF n.d.abort # Nil THEN [d |-> n.d, r |-> <<>>]
            ELSE scanSlice(scanByte(n.d).d, IntOfUint32(n.r, d.word))
    IN  bytes(scanSlice(d, 4))

\* d.scanBool()
scanBool(d) == LET bool(b) == [d |-> b.d, r |-> b.r # 0] IN bool(scanByte(d))

\* d.scanInt32(), d.scanInt64(), d.scanFloat(): the bytes of the number
scanInt32(d) == scanSlice(d, 4)
scanInt64(d) == scanSlice(d, 8)
scanFloat(d) == scanSlice(d, 8)

\* d.saveError(err)
saveError(d, err) ==
    IF d.abort = Nil /\ d.savedError = Nil THEN [d EXCEPT !.savedError = err] ELSE d

\* d.offset += n after n := int(d.scanInt32()), in skipValue
SkipBy(n, more) == IF n.d.abort # Nil THEN n.d ELSE SetOffset(n.d, n.d.offset + Int32(n.r) + more)

\* d.skipValue(kind)
skipValue(d, kind) ==
    IF d.abort # Nil THEN d
    ELSE IF kind \in {kindString, kindSymbol} THEN SkipBy(scanInt32(d), 0)
    ELSE IF kind \in {kindDocument, kindArray} THEN SkipBy(scanInt32(d), 0 - 4)
    ELSE IF kind = kindBinary THEN SkipBy(scanInt32(d), 1)
    ELSE IF kind = kindObjectId THEN SetOffset(d, d.offset + 12)
    ELSE IF kind = kindBool THEN SetOffset(d, d.offset + 1)
    ELSE IF kind \in {kindDateTime, kindTimestamp, kindInt64, kindFloat} THEN SetOffset(d, d.offset + 8)
    ELSE IF kind = kindInt32 THEN SetOffset(d, d.offset + 4)
    ELSE IF kind \in {kindMinValue, kindMaxValue, kindNull} THEN d
    ELSE abort(d, DecodeTypeError(kind))

\* d.saveErrorAndSkip(kind, t)
saveErrorAndSkip(d, kind, t) == saveError(skipValue(d, kind), DecodeConvertError(kind, t))


(* The types of targets, and their values.  A type is a record with its     *)
(* kind k; a value of an integer type is its bytes, of a string type its    *)
(* bytes, of a map a function from names, of a slice or array a sequence,   *)
(* of a struct a function from field names, of interface{} a record of the  *)
(* dynamic type and the value.                                              *)

BoolT == [k |-> "bool"]
\* int8, int32, int64 and uint8, uint32, uint64 by their size in bytes
IntT(size) == [k |-> "int", size |-> size]
UintT(size) == [k |-> "uint", size |-> size]
Float64T == [k |-> "float64"]
StringT == [k |-> "string"]
SymbolT == [k |-> "Symbol"]
ObjectIdT == [k |-> "ObjectId"]
DateTimeT == [k |-> "DateTime"]
TimestampT == [k |-> "Timestamp"]
MinMaxT == [k |-> "MinMax"]
ByteSliceT == [k |-> "[]byte"]
BSONDataT == [k |-> "BSONData"]
InterfaceT == [k |-> "interface"]
MT == [k |-> "M"]
MapT(elem) == [k |-> "map", elem |-> elem]
SliceT(elem) == [k |-> "slice", elem |-> elem]
ArrayT(elem, n) == [k |-> "array", elem |-> elem, len |-> n]
StructT(fields) == [k |-> "struct", fields |-> fields]
\* a type with no decoder in kindDecoder or typeDecoder
Complex128T == [k |-> "complex128"]

\* n zero bytes
Zeros(n) == [i \in 1..n |-> 0]

\* a nil interface{}
NilValue == [type |-> "nil", v |-> <<>>]

\* a float64: its bits, or the int64 it was converted from
FloatOfBits(b) == [from |-> "bits", b |-> b]
\* the bits of 1.0
FloatOne == <<0, 0, 0, 0, 0, 0, 240, 63>>
\* the int64 1
IntOne == <<1, 0, 0, 0, 0, 0, 0, 0>>
\* float64(n) of an int64 n
FloatOfInt64(n) ==
    IF n = Zeros(8) THEN FloatOfBits(Zeros(8))
    ELSE IF n = IntOne THEN FloatOfBits(FloatOne)
    ELSE [from |-> "int64", b |-> n]
\* int64(f) and uint64(f) of the float64 with bits b
Int64OfFloat(b) ==
    CASE b = Zeros(8) -> Zeros(8)
      [] b = FloatOne -> IntOne
\* f != 0 for the float64 with bits b: neither 0.0 nor -0.0
FloatNonZero(b) == b # Zeros(8) /\ b # <<0, 0, 0, 0, 0, 0, 0, 128>>

RECURSIVE Zero(_)
\* reflect.Zero(t)
Zero(t) ==
    CASE t.k = "bool" -> FALSE
      [] t.k \in {"int", "uint"} -> Zeros(t.size)
      [] t.k = "float64" -> FloatOfBits(Zeros(8))
      [] t.k \in {"string", "Symbol", "ObjectId", "[]byte", "complex128"} -> <<>>
      [] t.k \in {"DateTime", "Timestamp"} -> Zeros(8)
      [] t.k = "MinMax" -> 0
      [] t.k = "BSONData" -> [Kind |-> 0, Data |-> <<>>]
      [] t.k = "interface" -> NilValue
      [] t.k \in {"M", "map", "slice"} -> <<>>
      [] t.k = "array" -> [i \in 1..t.len |-> Zero(t.elem)]
      [] t.k = "struct" -> [n \in DOMAIN t.fields |-> Zero(t.fields[n])]

\* int64(x) of an int32 x, and the like: b extended by its sign to n bytes
SignExtend(b, n) ==
    [i \in 1..n |-> IF i <= Len(b) THEN b[i] ELSE IF b[Len(b)] >= 128 THEN 255 ELSE 0]

\* b cut to its low size bytes and extended by zeros to 8
ZeroExtend(b, size) == [i \in 1..8 |-> IF i <= size THEN b[i] ELSE 0]

\* v.OverflowInt(n), v.OverflowUint(n) for a v of size bytes
OverflowInt(n, size) == SignExtend(SubSeq(n, 1, size), 8) # n
OverflowUint(n, size) == ZeroExtend(n, size) # n

\* what a decoder gives back: the state, and the value of the target
Decoded(d, v) == [d |-> d, v |-> v]

\* v.SetInt(n), v.SetUint(n) after the overflow check, in decodeInt and decodeUint
SetInteger(d, n, overflow, kind, t, v) ==
    IF d.abort # Nil THEN Decoded(d, v)
    ELSE IF overflow THEN Decoded(saveError(d, DecodeConvertError(kind, t)), v)
    ELSE Decoded(d, SubSeq(n, 1, Len(v)))

\* decodeFloat
decodeFloat(d, kind, t, v) ==
    LET set(f) == Decoded(f.d, IF f.d.abort = Nil THEN FloatOfBits(f.r) ELSE v)
        convert(n) == Decoded(n.d, IF n.d.abort = Nil THEN FloatOfInt64(SignExtend(n.r, 8)) ELSE v)
    IN  IF kind = kindFloat THEN set(scanFloat(d))
        ELSE IF kind = kindInt64 THEN convert(scanInt64(d))
        ELSE IF kind = kindInt32 THEN convert(scanInt32(d))
        ELSE Decoded(saveErrorAndSkip(d, kind, t), v)

\* decodeInt
decodeInt(d, kind, t, v) ==
    LET set(s, n) == SetInteger(s, n, OverflowInt(n, Len(v)), kind, t, v)
        widen(n) == set(n.d, SignExtend(n.r, 8))
        convert(f) == IF f.d.abort # Nil THEN Decoded(f.d, v) ELSE set(f.d, Int64OfFloat(f.r))
    IN  IF kind \in {kindInt64, kindTimestamp, kindDateTime} THEN widen(scanInt64(d))
        ELSE IF kind = kindInt32 THEN widen(scanInt32(d))
        ELSE IF kind = kindFloat THEN convert(scanFloat(d))
        ELSE Decoded(saveErrorAndSkip(d, kind, t), v)

\* decodeUint: uint64(n) of an int64 keeps its bytes
decodeUint(d, kind, t, v) ==
    LET set(s, n) == SetInteger(s, n, OverflowUint(n, Len(v)), kind, t, v)
        widen(n) == set(n.d, SignExtend(n.r, 8))
        convert(f) == IF f.d.abort # Nil THEN Decoded(f.d, v) ELSE set(f.d, Int64OfFloat(f.r))
    IN  IF kind \in {kindInt64, kindTimestamp, kindDateTime} THEN widen(scanInt64(d))
        ELSE IF kind = kindInt32 THEN widen(scanInt32(d))
        ELSE IF kind = kindFloat THEN convert(scanFloat(d))
        ELSE Decoded(saveErrorAndSkip(d, kind, t), v)

\* decodeTimestamp
decodeTimestamp(d, kind, t, v) ==
    IF kind \in {kindInt64, kindTimestamp} THEN decodeInt(d, kindInt64, t, v)
    ELSE Decoded(saveErrorAndSkip(d, kind, t), v)

\* decodeDateTime
decodeDateTime(d, kind, t, v) ==
    IF kind \in {kindInt64, kindDateTime} THEN decodeInt(d, kindInt64, t, v)
    ELSE Decoded(saveErrorAndSkip(d, kind, t), v)

\* decodeString
decodeString(d, kind, t, v) ==
    LET set(s) == Decoded(s.d, IF s.d.abort = Nil THEN s.r ELSE v)
    IN  IF kind \in {kindString, kindSymbol, kindCode} THEN set(scanString(d))
        ELSE Decoded(saveErrorAndSkip(d, kind, t), v)

\* decodeObjectId
decodeObjectId(d, kind, t, v) ==
    LET set(p) == Decoded(p.d, IF p.d.abort = Nil THEN p.r ELSE v)
    IN  IF kind = kindObjectId THEN set(scanSlice(d, 12))
        ELSE Decoded(saveErrorAndSkip(d, kind, t), v)

\* decodeBSONData: make([]byte, d.offset-start) and d.data[start:d.offset]
\* panic when the offset is before start or beyond cap(d.data); between
\* len(d.data) and the capacity the copy reads bytes that are not the input's
decodeBSONData(d, kind, t, v) ==
    LET copy(s) ==
            IF s.abort # Nil THEN Decoded(s, v)
            ELSE IF s.offset < d.offset \/ d.offset < 0 \/ s.offset > d.cap
            THEN Decoded(abort(s, RuntimePanic("slice bounds out of range")), v)
            ELSE IF s.offset > Len(d.data)
            THEN Decoded([s EXCEPT !.oob = TRUE],
                         [Kind |-> kind,
                          Data |-> [i \in 1..(s.offset - d.offset) |->
                                       IF d.offset + i <= Len(d.data) THEN d.data[d.offset + i] ELSE 0]])
            ELSE Decoded(s, [Kind |-> kind, Data |-> SubSeq(d.data, d.offset + 1, s.offset)])
    IN  copy(skipValue(d, kind))

\* decodeByteSlice
decodeByteSlice(d, kind, t, v) ==
    LET set(p) == Decoded(p.d, IF p.d.abort = Nil THEN p.r ELSE v)
    IN  IF kind = kindBinary THEN set(scanBinary(d))
        ELSE Decoded(saveErrorAndSkip(d, kind, t), v)

\* decodeBool
decodeBool(d, kind, t, v) ==
    LET set(b) == Decoded(b.d, IF b.d.abort = Nil THEN b.r ELSE v)
        nonzero(n) == Decoded(n.d, IF n.d.abort = Nil THEN n.r # Zeros(Len(n.r)) ELSE v)
        convert(f) == Decoded(f.d, IF f.d.abort = Nil THEN FloatNonZero(f.r) ELSE v)
    IN  IF kind = kindBool THEN set(scanBool(d))
        ELSE IF kind = kindInt32 THEN nonzero(scanInt32(d))
        ELSE IF kind = kindInt64 THEN nonzero(scanInt64(d))
        ELSE IF kind = kindFloat THEN convert(scanFloat(d))
        ELSE Decoded(saveErrorAndSkip(d, kind, t), v)

\* decodeMinMax
decodeMinMax(d, kind, t, v) ==
    IF kind = kindMaxValue THEN Decoded(d, 1)
    ELSE IF kind = kindMinValue THEN Decoded(d, 0 - 1)
    ELSE Decoded(saveError(d, DecodeConvertError(kind, t)), v)

\* one value of interface{}: the dynamic type and the value
Dyn(type, v) == [type |-> type, v |-> v]

\* d.decodeValueInterface(kind) for the kinds that are no document or array
decodeValueInterface(d, kind) ==
    LET take(type, s) == Decoded(s.d, IF s.d.abort = Nil THEN Dyn(type, s.r) ELSE NilValue)
        bool(b) == [d |-> b.d, r |-> <<IF b.r THEN 1 ELSE 0>>]
    IN  CASE kind = kindFloat -> take("float64", scanFloat(d))
          [] kind \in {kindString, kindSymbol} ->
                take(IF kind = kindString THEN "string" ELSE "Symbol", scanString(d))
          [] kind = kindBinary -> take("[]byte", scanBinary(d))
          [] kind = kindObjectId -> take("ObjectId", scanSlice(d, 12))
          [] kind = kindBool -> take("bool", bool(scanBool(d)))
          [] kind \in {kindDateTime, kindTimestamp, kindInt64} ->
                take(IF kind = kindDateTime THEN "DateTime"
                     ELSE IF kind = kindTimestamp THEN "Timestamp" ELSE "int64", scanInt64(d))
          [] kind = kindNull -> Decoded(d, NilValue)
          [] kind = kindInt32 -> take("int", scanInt32(d))
          [] kind = kindMinValue -> Decoded(d, Dyn("MinMax", <<0 - 1>>))
          [] kind = kindMaxValue -> Decoded(d, Dyn("MinMax", <<1>>))
          [] OTHER -> Decoded(abort(d, DecodeTypeError(kind)), NilValue)

\* decodeInterface for the kinds that are no document or array:
\* v.Set(reflect.ValueOf(x)) panics when x is nil, for reflect.ValueOf(nil)
\* is the zero Value
decodeInterface(d, kind, t, v) ==
    LET set(x) ==
            IF x.d.abort # Nil THEN Decoded(x.d, v)
            ELSE IF x.v = NilValue
            THEN Decoded(abort(x.d, RuntimePanic("reflect: call of reflect.Value.Set on zero Value")), v)
            ELSE x
    IN  set(decodeValueInterface(d, kind))


(* The loops of the decoder.  A decoder that reads a document or an array   *)
(* (decodeStruct, decodeMapStringInterface, decodeMap, decodeSlice,         *)
(* decodeArray, and decodeValueInterface for a document and for an array)   *)
(* is a frame on a stack: fn is the loop, t the type of its target, end the *)
(* offset beginDoc returned, v the value of the target so far, i the count  *)
(* of elements, slot where v belongs in the target of the frame below.      *)

NoFrame == [fn |-> "none"]

\* d.beginDoc()
beginDoc(d) ==
    LET end(n) == [d |-> n.d, r |-> IF n.d.abort # Nil THEN 0 ELSE d.offset + IntOfUint32(n.r, d.word)]
    IN  end(scanSlice(d, 4))

\* a decoder that goes on to its loop after beginDoc
Loop(fn, d, t, v) ==
    LET enter(b) ==
            [d |-> b.d, v |-> v,
             frame |-> [fn |-> fn, t |-> t, end |-> b.r, v |-> v, i |-> 0, slot |-> <<>>]]
    IN  enter(beginDoc(d))

\* a decoder that has returned
Returned(r) == [d |-> r.d, v |-> r.v, frame |-> NoFrame]

\* d.decodeValue(kind, v) for a v of type t: the decoder of typeDecoder or
\* kindDecoder, up to the loop it enters if it enters one
decodeValue(d, kind, t, v) ==
    CASE t.k = "bool" -> Returned(decodeBool(d, kind, t, v))
      [] t.k = "float64" -> Returned(decodeFloat(d, kind, t, v))
      [] t.k = "int" -> Returned(decodeInt(d, kind, t, v))
      [] t.k = "uint" -> Returned(decodeUint(d, kind, t, v))
      [] t.k \in {"string", "Symbol"} -> Returned(decodeString(d, kind, t, v))
      [] t.k = "ObjectId" -> Returned(decodeObjectId(d, kind, t, v))
      [] t.k = "DateTime" -> Returned(decodeDateTime(d, kind, t, v))
      [] t.k = "Timestamp" -> Returned(decodeTimestamp(d, kind, t, v))
      [] t.k = "MinMax" -> Returned(decodeMinMax(d, kind, t, v))
      [] t.k = "[]byte" -> Returned(decodeByteSlice(d, kind, t, v))
      [] t.k = "BSONData" -> Returned(decodeBSONData(d, kind, t, v))
      [] t.k = "interface" ->
            IF kind = kindDocument THEN Loop("document", d, t, <<>>)
            ELSE IF kind = kindArray THEN Loop("array", d, t, <<>>)
            ELSE Returned(decodeInterface(d, kind, t, v))
      \* decodeMapStringInterface goes on after saveErrorAndSkip
      [] t.k = "M" ->
            Loop("decodeMapStringInterface",
                 IF kind # kindDocument THEN saveErrorAndSkip(d, kind, t) ELSE d, t, v)
      [] t.k = "map" ->
            IF kind # kindDocument THEN Returned(Decoded(saveErrorAndSkip(d, kind, t), v))
            ELSE Loop("decodeMap", d, t, v)
      [] t.k = "slice" ->
            IF kind # kindArray THEN Returned(Decoded(saveErrorAndSkip(d, kind, t), v))
            ELSE Loop("decodeSlice", d, t, v)
      [] t.k = "array" ->
            IF kind # kindArray THEN Returned(Decoded(saveErrorAndSkip(d, kind, t), v))
            ELSE Loop("decodeArray", d, t, v)
      \* decodeStruct does not look at the kind
      [] t.k = "struct" -> Loop("decodeStruct", d, t, v)
      [] OTHER -> Returned(Decoded(saveErrorAndSkip(d, kind, t), v))

\* d.decodeValueInterface(kind), up to the loop it enters for a document or
\* an array
Generic(d, kind) ==
    IF kind = kindDocument THEN Loop("document", d, InterfaceT, <<>>)
    ELSE IF kind = kindArray THEN Loop("array", d, InterfaceT, <<>>)
    ELSE Returned(decodeValueInterface(d, kind))

\* the value a finished loop leaves: decodeValueInterface returns the map or
\* the slice as an interface{}
Left(f) ==
    IF f.fn = "document" THEN Dyn("M", f.v)
    ELSE IF f.fn = "array" THEN Dyn("A", f.v)
    ELSE f.v

\* the target of frame f with w put at slot
Put(f, slot, w) ==
    IF f.fn \in {"decodeStruct", "decodeSlice", "decodeArray"} THEN [f EXCEPT !.v[slot] = w]
    ELSE IF f.fn = "array" THEN [f EXCEPT !.v = Append(@, w)]
    ELSE [f EXCEPT !.v = (slot :> w) @@ @]

\* one turn of the loop of frame f for the element of kind and name that
\* scanKindName found, leaving the state s: the frame after it, and the frame
\* of the loop the element's decoder enters, if it does
Turn(f, s, kind, name) ==
    LET \* the slot of the element, and the frame with the slot made
        i1 == f.i + 1
        g == IF f.fn = "decodeSlice" /\ f.i >= Len(f.v)
             THEN [f EXCEPT !.v = Append(@, Zero(f.t.elem)), !.i = i1]
             ELSE IF f.fn \in {"decodeSlice", "decodeArray", "array"} THEN [f EXCEPT !.i = i1]
             ELSE f
        slot == IF f.fn \in {"decodeSlice", "decodeArray", "array"} THEN i1 ELSE name
        \* the loops that go on to the next element at a null
        continues == f.fn \in {"decodeStruct", "decodeMapStringInterface", "decodeMap"} /\ kind = kindNull
        \* no field of the name, no room in the array
        skips == \/ f.fn = "decodeStruct" /\ name \notin DOMAIN f.t.fields
                 \/ f.fn = "decodeArray" /\ f.i >= f.t.len
        \* the type and the value the element is decoded into
        t == IF f.fn = "decodeStruct" THEN f.t.fields[name] ELSE f.t.elem
        v == CASE f.fn = "decodeStruct" -> f.v[name]
               [] f.fn = "decodeMap" -> Zero(f.t.elem)
               [] f.fn = "decodeSlice" -> g.v[i1]
               [] f.fn = "decodeArray" -> f.v[i1]
        into(r) ==
            IF r.d.abort # Nil THEN [d |-> r.d, f |-> g, frame |-> NoFrame]
            ELSE IF r.frame.fn = "none" THEN [d |-> r.d, f |-> Put(g, slot, r.v), frame |-> NoFrame]
            ELSE [d |-> r.d, f |-> g, frame |-> [r.frame EXCEPT !.slot = slot]]
    IN  IF continues THEN [d |-> s, f |-> g, frame |-> NoFrame]
        ELSE IF skips THEN [d |-> skipValue(s, kind), f |-> g, frame |-> NoFrame]
        ELSE into(IF f.fn \in {"decodeMapStringInterface", "document", "array"}
                  THEN Generic(s, kind)
                  ELSE decodeValue(s, kind, t, v))

\* offsets at the head of the outermost loop that are kept
MaxMarks == 4

\* dec while Decode runs: the state d of the decoder, the stack of loops,
\* and the offsets at which the outermost loop began a turn
Running(d, stack) ==
    [dec EXCEPT !.op = "decoding", !.d = d, !.stack = stack,
                !.marks = IF Len(stack) = 1 /\ Len(@) < MaxMarks THEN Append(@, d.offset) ELSE @]

\* dec when Decode is over: handleAbort turns an abort into the error
\* returned and lets any other panic go on; without abort the error is
\* d.savedError
Over(d, v) ==
    [dec EXCEPT !.op = "done", !.d = d, !.stack = <<>>, !.v = v,
                !.err = IF d.abort # Nil THEN d.abort ELSE d.savedError]

\* the value of the outermost target, as far as the loops have set it
\* (a struct, slice, array or map is set in place, unless it is the subv of
\* decodeMap; what decodeValueInterface builds is assigned when it returns)
RECURSIVE Unwound(_)
Unwound(stack) ==
    IF Len(stack) = 1 THEN stack[1].v
    ELSE LET n == Len(stack)
         IN  Unwound(Append(SubSeq(stack, 1, n - 2),
                            IF stack[n - 1].fn = "decodeMap" \/ stack[n].fn \in {"document", "array"}
                            THEN stack[n - 1]
                            ELSE Put(stack[n - 1], stack[n].slot, Left(stack[n]))))

\* Decode(data, v)
CallDecode ==
    /\ dec.op = "input"
    /\ LET decoded(r) ==
               IF r.d.abort # Nil \/ r.frame.fn = "none" THEN Over(r.d, r.v)
               ELSE Running(r.d, <<r.frame>>)
       IN  dec' = IF dec.arg = "nil pointer"
                  THEN [dec EXCEPT !.op = "done",
                                   !.err = NewError("bson: Decode pointer arg must not be nil.")]
                  ELSE IF dec.arg = "value"
                  THEN [dec EXCEPT !.op = "done",
                                   !.err = NewError("bson: Decode arg must be pointer or map.")]
                  ELSE decoded(decodeValue(dec.d, kindDocument, dec.t, dec.v))
    /\ UNCHANGED <<DriverVars, oid, si>>

\* the loop of the innermost decoder finds an element
Element ==
    /\ dec.op = "decoding"
    /\ LET n == Len(dec.stack)
           turned(r) ==
               LET stack == [dec.stack EXCEPT ![n] = r.f]
               IN  IF r.d.abort # Nil THEN Over(r.d, Unwound(stack))
                   ELSE IF r.frame.fn = "none" THEN Running(r.d, stack)
                   ELSE Running(r.d, Append(stack, r.frame))
           found(s) ==
               /\ s.d.abort = Nil
               /\ s.kind # 0
               /\ dec' = turned(Turn(dec.stack[n], s.d, s.kind, s.name))
       IN  found(scanKindName(dec.d))
    /\ UNCHANGED <<DriverVars, oid, si>>

\* the loop of the innermost decoder finds the end of its document: endDoc
EndDoc ==
    /\ dec.op = "decoding"
    /\ LET n == Len(dec.stack)
           f == dec.stack[n]
           found(s) ==
               /\ s.d.abort = Nil
               /\ s.kind = 0
               /\ dec' = IF s.d.offset # f.end THEN Over(abort(s.d, ErrDocLength), Unwound(dec.stack))
                         ELSE IF n = 1 THEN Over(s.d, f.v)
                         ELSE Running(s.d, Append(SubSeq(dec.stack, 1, n - 2),
                                                  Put(dec.stack[n - 1], f.slot, Left(f))))
       IN  found(scanKindName(dec.d))
    /\ UNCHANGED <<DriverVars, oid, si>>

\* scanKindName aborts, or panics
ScanKindNameFails ==
    /\ dec.op = "decoding"
    /\ LET failed(s) ==
               /\ s.d.abort # Nil
               /\ dec' = Over(s.d, Unwound(dec.stack))
       IN  failed(scanKindName(dec.d))
    /\ UNCHANGED <<DriverVars, oid, si>>


(* The inputs of Decode.  The encoder is not part of the sources at hand;   *)
(* documents are laid out as the scan functions of the decoder read them.   *)

\* the four bytes of the int32 n, low byte first
Int32Bytes(n) == [i \in 1..4 |-> (n \div Pow(256, i - 1)) % 256]
\* the eight bytes of an int64 that is a small n
Int64Bytes(n) == SignExtend(Int32Bytes(n), 8)

\* an element of a document: kind byte, name, value bytes
El(kind, name, val) == [kind |-> kind, name |-> name, val |-> val]

RECURSIVE Elements(_)
Elements(els) ==
    IF els = <<>> THEN <<>>
    ELSE <<els[1].kind>> \o els[1].name \o <<0>> \o els[1].val \o Elements(Tail(els))

\* a document: its length, its elements, a zero byte
EncodeDoc(els) == Int32Bytes(Len(Elements(els)) + 5) \o Elements(els) \o <<0>>

\* a string value: length with the terminator, bytes, terminator
StringValue(s) == Int32Bytes(Len(s) + 1) \o s \o <<0>>

\* the names "a", "b", "x", "z", "0", "1"
NameA == <<97>>
NameB == <<98>>
NameX == <<120>>
NameZ == <<122>>
Name0 == <<48>>
Name1 == <<49>>

\* values of each kind, as the bytes of the value
Samples(kind) ==
    CASE kind = kindFloat -> {FloatOne}
      [] kind \in {kindString, kindSymbol, kindCode} -> {StringValue(<<115>>)}
      [] kind = kindDocument -> {EncodeDoc(<<El(kindInt32, NameX, Int32Bytes(7))>>),
                                 EncodeDoc(<<El(kindNull, NameX, <<>>)>>)}
      [] kind = kindArray -> {EncodeDoc(<<El(kindInt32, Name0, Int32Bytes(7))>>),
                              EncodeDoc(<<El(kindNull, Name0, <<>>), El(kindInt32, Name1, Int32Bytes(7))>>)}
      [] kind = kindBinary -> {Int32Bytes(2) \o <<0, 33, 34>>}
      [] kind = kindObjectId -> {[i \in 1..12 |-> 100 + i]}
      [] kind = kindBool -> {<<1>>}
      [] kind \in {kindDateTime, kindTimestamp} -> {Int64Bytes(5)}
      [] kind \in {kindNull, kindMinValue, kindMaxValue} -> {<<>>}
      [] kind = kindRegexp -> {<<97, 0, 105, 0>>}
      [] kind = kindCodeWithScope ->
            {Int32Bytes(4 + 6 + 5) \o StringValue(<<115>>) \o EncodeDoc(<<>>)}
      [] kind = kindInt32 -> {Int32Bytes(7), Int32Bytes(0 - 1), Int32Bytes(300)}
      [] kind = kindInt64 -> {Int64Bytes(7), Int64Bytes(0 - 1), <<0, 0, 0, 0, 1, 0, 0, 0>>}

\* the kind table
Kinds == {kindFloat, kindString, kindDocument, kindArray, kindBinary, kindObjectId, kindBool,
          kindDateTime, kindNull, kindRegexp, kindCode, kindSymbol, kindCodeWithScope,
          kindInt32, kindTimestamp, kindInt64, kindMinValue, kindMaxValue}

\* the first element of a document: of any kind and value, named a or z
Firsts ==
    UNION {{El(k, n, val) : val \in Samples(k), n \in {NameA, NameZ}} : k \in Kinds}
    \cup UNION {{El(kindArray, NameA,
                    EncodeDoc(<<El(kindInt32, Name0, Int32Bytes(7)), El(k, Name1, val)>>)) :
                    val \in Samples(k)} : k \in Kinds \ {kindDocument, kindArray}}

\* the element that follows: b, an int32 7 or an int64 2^32
Seconds == {El(kindInt32, NameB, Int32Bytes(7)), El(kindInt64, NameB, <<0, 0, 0, 0, 1, 0, 0, 0>>)}

\* the types of the field a
FieldTypes ==
    {BoolT, IntT(1), IntT(4), IntT(8), UintT(1), UintT(4), UintT(8), Float64T, StringT, SymbolT,
     ObjectIdT, DateTimeT, TimestampT, MinMaxT, ByteSliceT, BSONDataT, InterfaceT, MT,
     MapT(IntT(4)), SliceT(IntT(4)), SliceT(InterfaceT), ArrayT(IntT(4), 1),
     StructT(NameX :> IntT(4)), Complex128T}

\* struct { A T "a"; B int32 "b" }
StructAB(t) == StructT((NameA :> t) @@ (NameB :> IntT(4)))

\* the types of the targets of well-formed documents
Targets == {StructAB(t) : t \in FieldTypes} \cup {MT, MapT(IntT(4))}

\* the types of the targets of damaged documents
FewTargets == {StructAB(StringT), StructAB(BSONDataT), StructAB(StructT(NameX :> IntT(4))), MT}

\* the first elements of the documents that are damaged
FewFirsts == {e \in Firsts : /\ e.kind \in {kindString, kindDocument, kindBinary}
                             /\ e.val \in {StringValue(<<115>>), Int32Bytes(2) \o <<0, 33, 34>>,
                                           EncodeDoc(<<El(kindInt32, NameX, Int32Bytes(7))>>)}}

\* bytes that data's backing array may have beyond len(data)
MaxSlack == 8

\* the bytes put in place of a byte of a document
Damage == {0, 255}

\* no damage, data cut to its first at bytes, byte at + 1 replaced by b
Whole == [how |-> "whole", at |-> 0, b |-> 0]
Cut(at) == [how |-> "cut", at |-> at, b |-> 0]
Replace(at, b) == [how |-> "replace", at |-> at, b |-> b]

\* the int32 at at replaced by n
Relength(at, n) == [how |-> "length", at |-> at, b |-> n]

\* the lengths put in place of the length of a value
Lengths == {0, 0 - 1, 0 - 7, 100}

Damaged(data, mut) ==
    IF mut.how = "cut" THEN SubSeq(data, 1, mut.at)
    ELSE IF mut.how = "replace" THEN [data EXCEPT ![mut.at + 1] = mut.b]
    ELSE IF mut.how = "length"
    THEN [i \in 1..Len(data) |->
             IF i > mut.at /\ i <= mut.at + 4 THEN Int32Bytes(mut.b)[i - mut.at] ELSE data[i]]
    ELSE data

\* the decodeState at the start of Decode
decodeState(data, cap, word) ==
    [data |-> data, cap |-> cap, word |-> word, offset |-> 0, savedError |-> Nil,
     abort |-> Nil, back |-> FALSE, oob |-> FALSE]

\* dec before Decode(data, &v) is called: the document and how it was
\* damaged, the argument, the type of v
Input(doc, mut, arg, t, slack, word) ==
    [op |-> "input", doc |-> doc, mut |-> mut, arg |-> arg, t |-> t,
     d |-> decodeState(Damaged(EncodeDoc(doc), mut), Len(Damaged(EncodeDoc(doc), mut)) + slack, word),
     stack |-> <<>>, marks |-> <<>>, v |-> Zero(t), err |-> Nil]

\* the element that may follow the first element e
SecondsOf(e) ==
    IF e.kind \in {kindInt32, kindInt64} THEN Seconds ELSE {El(kindInt32, NameB, Int32Bytes(7))}

\* the ways a document of n bytes whose first element has a name of k bytes
\* is damaged: cut short, one byte replaced, the length of the first value
\* replaced
Cuts(n) == {Cut(at) : at \in 0..(n - 1)}
Replacements(n, k) ==
    {Replace(at, b) : at \in 0..(n - 1), b \in Damage} \cup {Relength(6 + k, m) : m \in Lengths}

InitDecode ==
    /\ DriverAtRest
    /\ oid = NoOid
    /\ si = NoStructInfo
    /\ \/ \E e \in Firsts, t \in Targets : \E b \in SecondsOf(e) :
             dec = Input(<<e, b>>, Whole, "pointer", t, 0, 64)
       \/ \E arg \in {"nil pointer", "value"} :
             dec = Input(<<El(kindInt32, NameB, Int32Bytes(7))>>, Whole, arg, StructAB(StringT), 0, 64)
       \/ \E e \in FewFirsts, t \in FewTargets :
             LET doc == <<e, El(kindInt32, NameB, Int32Bytes(7))>>
                 data == EncodeDoc(doc)
             IN  \/ \E mut \in Cuts(Len(data)), slack \in {0, MaxSlack} :
                       dec = Input(doc, mut, "pointer", t, slack, 64)
                 \/ \E mut \in Replacements(Len(data), Len(e.name)), word \in {32, 64} :
                       /\ Damaged(data, mut) # data
                       /\ dec = Input(doc, mut, "pointer", t, 0, word)

NextDecode ==
    \/ CallDecode
    \/ Element
    \/ EndDoc
    \/ ScanKindNameFails

SpecDecode == InitDecode /\ [][NextDecode]_vars


\* Decode has returned or panicked, on a well-formed document
DoneWhole == dec.op = "done" /\ dec.mut = Whole /\ dec.arg = "pointer"

\* the encoded length of an element
ElLen(e) == 1 + Len(e.name) + 1 + Len(e.val)

\* the offsets at which the outermost loop begins its turns on document doc
RECURSIVE MarksOf(_, _)
MarksOf(doc, from) ==
    IF doc = <<>> THEN <<from>> ELSE <<from>> \o MarksOf(Tail(doc), from + ElLen(doc[1]))

\* the element b was decoded into the field b
SecondDecoded ==
    /\ dec.doc[2].kind = kindInt32 => dec.v[NameB] = dec.doc[2].val
    /\ dec.doc[2].kind = kindInt64 => dec.v[NameB] = Zero(IntT(4))

\* C18 (skip semantics): an element with no slot in the target (or beyond a
\* fixed array's length) is skipped for every kind of the kind table,
\* regexp, code, codeWithScope, null, min and max included: the offset
\* advances exactly by the element's encoded length, no error is recorded,
\* the following elements decode correctly; a BSONData target captures the
\* same span.
C18_Skip ==
    (DoneWhole /\ dec.t.k = "struct" /\ dec.doc[2].kind = kindInt32) =>
        LET e == dec.doc[1]
            t == dec.t.fields[NameA]
        IN  /\ e.name = NameZ =>
                  /\ dec.err = Nil
                  /\ dec.marks = MarksOf(dec.doc, 4)
                  /\ dec.v[NameA] = Zero(t)
                  /\ SecondDecoded
            /\ (e.name = NameA /\ t = BSONDataT) =>
                  /\ dec.err = Nil
                  /\ dec.marks = MarksOf(dec.doc, 4)
                  /\ dec.v[NameA].Data = e.val
                  /\ e.kind # kindNull => dec.v[NameA].Kind = e.kind
                  /\ SecondDecoded
            /\ (e.name = NameA /\ e.kind = kindArray /\ t = ArrayT(IntT(4), 1)
                   /\ SubSeq(e.val, 5, 11) = <<kindInt32>> \o Name0 \o <<0>> \o Int32Bytes(7)) =>
                  /\ dec.err = Nil
                  /\ dec.marks = MarksOf(dec.doc, 4)
                  /\ dec.v[NameA] = <<Int32Bytes(7)>>
                  /\ SecondDecoded


\* the array [null, int32 7] and the document {x: null}
NullThenSeven == EncodeDoc(<<El(kindNull, Name0, <<>>), El(kindInt32, Name1, Int32Bytes(7))>>)
NullX == EncodeDoc(<<El(kindNull, NameX, <<>>)>>)

\* what C17 says of a null element of a struct, a typed map or an M
C17_NullField ==
    (DoneWhole /\ dec.doc[1].kind = kindNull /\ dec.doc[2].kind = kindInt32) =>
        /\ dec.err = Nil
        /\ dec.t.k = "struct" =>
              /\ dec.doc[1].name = NameA => dec.v[NameA] = Zero(dec.t.fields[NameA])
              /\ dec.v[NameB] = Int32Bytes(7)
        /\ dec.t = MapT(IntT(4)) =>
              /\ dec.doc[1].name \notin DOMAIN dec.v
              /\ dec.v[NameB] = Int32Bytes(7)
        /\ dec.t = MT =>
              /\ dec.doc[1].name \notin DOMAIN dec.v
              /\ dec.v[NameB] = Dyn("int", Int32Bytes(7))

\* C17 (null handling): a null element is skipped without error and leaves
\* the target at its zero value, uniformly: a struct field, a typed map and a
\* top-level M get no entry, a slice element of any element type stays zero,
\* and the generic decode of a nested document has the name absent.
C17_Null ==
    /\ C17_NullField
    /\ (DoneWhole /\ dec.doc[1] = El(kindArray, NameA, NullThenSeven) /\ dec.doc[2].kind = kindInt32) =>
          /\ dec.t = StructAB(SliceT(IntT(4))) =>
                dec.err = Nil /\ dec.v[NameA] = <<Zero(IntT(4)), Int32Bytes(7)>>
          /\ dec.t = StructAB(SliceT(InterfaceT)) =>
                dec.err = Nil /\ dec.v[NameA] = <<NilValue, Dyn("int", Int32Bytes(7))>>
    /\ (DoneWhole /\ dec.doc[1] = El(kindDocument, NameA, NullX) /\ dec.doc[2].kind = kindInt32) =>
          /\ dec.t = StructAB(InterfaceT) => dec.err = Nil /\ dec.v[NameA] = Dyn("M", <<>>)
          /\ dec.t = MT => dec.err = Nil /\ dec.v[NameA] = Dyn("M", <<>>)


\* the integer type t can represent the int64 n: a signed t when n is the
\* sign extension of its low bytes, an unsigned t when n is not negative and
\* its bytes beyond the size of t are zero
Fits(n, t) ==
    IF t.k = "int"
    THEN \A i \in (t.size + 1)..8 : n[i] = (IF n[t.size] >= 128 THEN 255 ELSE 0)
    ELSE n[8] < 128 /\ \A i \in (t.size + 1)..8 : n[i] = 0

\* the conversion errors of the elements of doc into the fields of the
\* struct type t, in the order of the document
RECURSIVE Misfits(_, _)
Misfits(doc, t) ==
    IF doc = <<>> THEN <<>>
    ELSE (IF Fits(SignExtend(doc[1].val, 8), t.fields[doc[1].name]) THEN <<>>
          ELSE <<DecodeConvertError(doc[1].kind, t.fields[doc[1].name])>>)
         \o Misfits(Tail(doc), t)

\* C16 (integer overflow): an int32 or int64 decoded into an integer target
\* that cannot represent the value (a negative value into any unsigned
\* target included) records a conversion error and stores no wrapped value;
\* decoding continues with the following elements, and the error returned is
\* the first conversion error in document order.
C16_Overflow ==
    (DoneWhole /\ dec.t.k = "struct" /\ dec.doc[1].name = NameA
        /\ dec.doc[1].kind \in {kindInt32, kindInt64}
        /\ dec.t.fields[NameA].k \in {"int", "uint"}) =>
        LET errs == Misfits(dec.doc, dec.t)
        IN  /\ dec.err = (IF errs = <<>> THEN Nil ELSE errs[1])
            /\ \A k \in 1..2 :
                  LET e == dec.doc[k]
                      t == dec.t.fields[e.name]
                  IN  dec.v[e.name] = IF Fits(SignExtend(e.val, 8), t)
                                      THEN SubSeq(SignExtend(e.val, 8), 1, t.size)
                                      ELSE Zero(t)


\* the kinds the decoder of a target of type t converts (the cases of its
\* switch that are not the default)
Accepts(t) ==
    CASE t.k = "bool" -> {kindBool, kindInt32, kindInt64, kindFloat}
      [] t.k = "float64" -> {kindFloat, kindInt64, kindInt32}
      [] t.k \in {"int", "uint"} -> {kindInt64, kindTimestamp, kindDateTime, kindInt32, kindFloat}
      [] t.k = "DateTime" -> {kindInt64, kindDateTime}
      [] t.k = "Timestamp" -> {kindInt64, kindTimestamp}
      [] t.k \in {"string", "Symbol"} -> {kindString, kindSymbol, kindCode}
      [] t.k = "ObjectId" -> {kindObjectId}
      [] t.k = "[]byte" -> {kindBinary}
      [] t.k = "MinMax" -> {kindMinValue, kindMaxValue}
      [] t.k \in {"M", "map", "struct"} -> {kindDocument}
      [] t.k \in {"slice", "array"} -> {kindArray}
      [] t.k = "complex128" -> {}

\* C15 (kind mismatch): for every target type and every element kind the
\* target does not accept, the decoder advances the offset exactly by the
\* element's encoded length, records a DecodeConvertError, leaves the target
\* unmodified, and decodes the following elements as if the mismatched
\* element were not there.
C15_Mismatch ==
    (DoneWhole /\ dec.t.k = "struct" /\ dec.doc[1].name = NameA
        /\ dec.t.fields[NameA] \notin {InterfaceT, BSONDataT}
        /\ dec.doc[1].kind \notin Accepts(dec.t.fields[NameA]) \cup {kindNull}) =>
        /\ dec.marks = MarksOf(dec.doc, 4)
        /\ dec.err = DecodeConvertError(dec.doc[1].kind, dec.t.fields[NameA])
        /\ dec.v[NameA] = Zero(dec.t.fields[NameA])
        /\ SecondDecoded


\* the input ends before its document is complete, or the declared length of
\* a document that is parsed (the outermost one, or the document a that a
\* struct field or a generic target takes) was replaced
LengthWrong ==
    /\ dec.arg = "pointer"
    /\ \/ dec.mut.how = "cut"
       \/ dec.mut.how = "replace" /\ dec.mut.at < 4
       \/ /\ dec.mut.how = "length"
          /\ dec.doc[1].kind = kindDocument
          /\ \/ dec.t = MT
             \/ dec.t.k = "struct" /\ dec.doc[1].name = NameA /\ dec.t.fields[NameA].k = "struct"

\* C14 (structural validation): Decode returns a fatal parse error, never
\* success, whenever the declared length of a document or array it parses
\* differs from the bytes it consumes, or the input ends before a value, a
\* name or a terminator is complete.
C14_Structure ==
    (dec.op = "done" /\ LengthWrong) =>
        /\ dec.d.abort # Nil
        /\ dec.err = dec.d.abort
        /\ dec.err.k \in {"ErrEOD", "errorString", "DecodeTypeError"}

\* C19 (termination): for every input, malformed length prefixes (zero,
\* negative, larger than the input) included, decoding is a single forward
\* pass: the offset never decreases, the decoder never reads outside data,
\* and Decode ends returning success or an error, never a run-time panic.
C19_ForwardPass ==
    /\ ~dec.d.back
    /\ ~dec.d.oob
    /\ dec.op = "done" => dec.err.k # "runtime panic"


(* structInfoForType: the process-wide cache of struct metadata, used by    *)
(* several goroutines.  The heap holds the structInfo values that were      *)
(* allocated, a pointer is an index into it, and structInfoCache maps a     *)
(* type to a pointer.                                                       *)

\* the nil *structInfo
NilStructInfo == 0

\* the struct types the goroutines ask for: struct{A}, struct{Id "_id"; B}
CacheTypes ==
    {<<[kind |-> "field", name |-> "a", exported |-> TRUE]>>,
     <<[kind |-> "field", name |-> "_id", exported |-> TRUE],
       [kind |-> "field", name |-> "b", exported |-> TRUE]>>}

\* si, found = structInfoCache[t]: the pointer, nil when not found
CacheLookup_Miss(cache, t) == NilStructInfo
CacheLookup(cache, t) == IF t \in DOMAIN cache THEN cache[t] ELSE NilStructInfo

\* &structInfo{m: make(map[string]*fieldInfo)}
NewStructInfo(t) == [t |-> t, m |-> EmptyMap, l |-> <<>>, fields |-> <<>>]

RECURSIVE FieldsFrom(_, _, _, _)
\* the loop over si.l that fills si.fields, from position i on, and the
\* _id entry appended after it
FieldsFrom(l, i, hasId, fields) ==
    IF i > Len(l)
    THEN IF hasId THEN fields ELSE Append(fields, [name |-> "_id", value |-> 0])
    ELSE IF l[i].name = "_id" THEN FieldsFrom(l, i + 1, TRUE, fields)
    ELSE FieldsFrom(l, i + 1, hasId, Append(fields, [name |-> l[i].name, value |-> 1]))

\* si: the heap, structInfoCache, the readers and the writer of
\* structInfoMutex, and for each goroutine its type, where it stands, its
\* local si, what it returned and on which path
InitCache ==
    /\ DriverAtRest
    /\ oid = NoOid
    /\ dec = NoDecode
    /\ \E ts \in [Goroutines -> CacheTypes] :
          si = [op |-> "cache", heap |-> <<>>, cache |-> EmptyMap,
                readers |-> {}, writer |-> Unlocked, t |-> ts,
                pc |-> [g \in Goroutines |-> "call"],
                si |-> [g \in Goroutines |-> NilStructInfo],
                ret |-> [g \in Goroutines |-> NilStructInfo],
                via |-> [g \in Goroutines |-> ""]]

\* structInfoMutex.RLock()
CacheRLock(g) ==
    /\ si.pc[g] = "call"
    /\ si.writer = Unlocked
    /\ si' = [si EXCEPT !.readers = @ \cup {g}, !.pc[g] = "lookup"]
    /\ UNCHANGED <<DriverVars, oid, dec>>

\* si, found := structInfoCache[t]
CacheRead(g) ==
    /\ si.pc[g] = "lookup"
    /\ si' = [si EXCEPT !.si[g] = CacheLookup(si.cache, si.t[g]), !.pc[g] = "runlock"]
    /\ UNCHANGED <<DriverVars, oid, dec>>

\* structInfoMutex.RUnlock(); if found { return si }
CacheRUnlock(g) ==
    /\ si.pc[g] = "runlock"
    /\ si' = IF si.si[g] # NilStructInfo
             THEN [si EXCEPT !.readers = @ \ {g}, !.pc[g] = "done", !.ret[g] = si.si[g],
                             !.via[g] = "read"]
             ELSE [si EXCEPT !.readers = @ \ {g}, !.pc[g] = "lock"]
    /\ UNCHANGED <<DriverVars, oid, dec>>

\* structInfoMutex.Lock()
CacheLock(g) ==
    /\ si.pc[g] = "lock"
    /\ si.writer = Unlocked
    /\ si.readers = {}
    /\ si' = [si EXCEPT !.writer = g, !.pc[g] = "recheck"]
    /\ UNCHANGED <<DriverVars, oid, dec>>

\* si, found = structInfoCache[t]; if found { return si }
CacheRecheck(g) ==
    /\ si.pc[g] = "recheck"
    /\ LET p == CacheLookup(si.cache, si.t[g])
       IN  si' = IF p # NilStructInfo
                 THEN [si EXCEPT !.si[g] = p, !.ret[g] = p, !.via[g] = "recheck", !.pc[g] = "unlock"]
                 ELSE [si EXCEPT !.pc[g] = "new"]
    /\ UNCHANGED <<DriverVars, oid, dec>>

\* si = &structInfo{m: make(map[string]*fieldInfo)}
CacheNew(g) ==
    /\ si.pc[g] = "new"
    /\ si' = [si EXCEPT !.heap = Append(@, NewStructInfo(si.t[g])), !.si[g] = Len(si.heap) + 1,
                        !.pc[g] = "compile"]
    /\ UNCHANGED <<DriverVars, oid, dec>>

\* compileStructInfo(t, make(map[string]int), nil, si)
CacheCompile(g) ==
    /\ si.pc[g] = "compile"
    /\ LET p == si.si[g]
           c == compileStructInfo(si.t[g], EmptyMap, <<>>, si.heap[p])
       IN  si' = [si EXCEPT !.heap[p].m = c.m, !.heap[p].l = c.l, !.pc[g] = "fields"]
    /\ UNCHANGED <<DriverVars, oid, dec>>

\* the loop over si.l and the _id entry
CacheFields(g) ==
    /\ si.pc[g] = "fields"
    /\ LET p == si.si[g]
       IN  si' = [si EXCEPT !.heap[p].fields = FieldsFrom(si.heap[p].l, 1, FALSE, @),
                            !.pc[g] = "publish"]
    /\ UNCHANGED <<DriverVars, oid, dec>>

\* structInfoCache[t] = si; return si
CachePublish(g) ==
    /\ si.pc[g] = "publish"
    /\ si' = [si EXCEPT !.cache = (si.t[g] :> si.si[g]) @@ @, !.ret[g] = si.si[g],
                        !.via[g] = "compiled", !.pc[g] = "unlock"]
    /\ UNCHANGED <<DriverVars, oid, dec>>

\* the deferred structInfoMutex.Unlock()
CacheUnlock(g) ==
    /\ si.pc[g] = "unlock"
    /\ si' = [si EXCEPT !.writer = Unlocked, !.pc[g] = "done"]
    /\ UNCHANGED <<DriverVars, oid, dec>>

NextCache ==
    \E g \in Goroutines :
        \/ CacheRLock(g)
        \/ CacheRead(g)
        \/ CacheRUnlock(g)
        \/ CacheLock(g)
        \/ CacheRecheck(g)
        \/ CacheNew(g)
        \/ CacheCompile(g)
        \/ CacheFields(g)
        \/ CachePublish(g)
        \/ CacheUnlock(g)

SpecCache == InitCache /\ [][NextCache]_vars

\* the entry of type t when it is fully built
Built(t) ==
    LET c == compileStructInfo(t, EmptyMap, <<>>, NewStructInfo(t))
    IN  [t |-> t, m |-> c.m, l |-> c.l, fields |-> FieldsFrom(c.l, 1, FALSE, <<>>)]

\* at most one structInfo was ever allocated for a type; what the cache holds
\* and what any goroutine has got from the cache or has returned is fully
\* built; the callers of one type that have returned have the same pointer
CacheState ==
    /\ \A p, q \in 1..Len(si.heap) : si.heap[p].t = si.heap[q].t => p = q
    /\ \A t \in DOMAIN si.cache : si.heap[si.cache[t]] = Built(t)
    /\ \A g \in Goroutines :
          /\ si.si[g] # NilStructInfo /\ si.pc[g] \in {"runlock", "unlock", "done"}
                => si.heap[si.si[g]] = Built(si.t[g])
          /\ si.pc[g] = "done"
                => /\ si.ret[g] # NilStructInfo
                   /\ si.ret[g] = si.cache[si.t[g]]
                   /\ si.heap[si.ret[g]] = Built(si.t[g])
    /\ \A g, h \in Goroutines :
          si.pc[g] = "done" /\ si.pc[h] = "done" /\ si.t[g] = si.t[h] => si.ret[g] = si.ret[h]

\* the cache changes only by the holder of the write lock adding an entry
\* for a type that has none; an entry and the structInfo it points to stay
\* as they are
CacheStep ==
    /\ \A t \in DOMAIN si.cache :
          /\ t \in DOMAIN si'.cache
          /\ si'.cache[t] = si.cache[t]
          /\ si'.heap[si.cache[t]] = si.heap[si.cache[t]]
    /\ si'.cache # si.cache
          => /\ si.writer # Unlocked
             /\ si'.writer = si.writer
             /\ si.readers = {}

\* C21 (struct metadata cache): when several goroutines ask for the metadata
\* of the same struct type concurrently, it is compiled and published at most
\* once, under the write lock; every caller, on the read path or on the
\* write path, gets the same fully built entry; no caller sees a partially
\* built entry; a published entry is never modified or replaced.
C21_CacheOnce == []CacheState /\ [][CacheStep]_vars

\* three callers of one type have returned, one on each path: found under
\* the read lock, found under the write lock, compiled
C21_Witness ==
    \E f, g, h \in Goroutines :
        /\ si.op = "cache"
        /\ si.t[f] = si.t[g] /\ si.t[g] = si.t[h]
        /\ si.pc[f] = "done" /\ si.pc[g] = "done" /\ si.pc[h] = "done"
        /\ si.via[f] = "read" /\ si.via[g] = "recheck" /\ si.via[h] = "compiled"


(* The one-shot cursors of the facade: Database.Run, Database.LastError and *)
(* Collection.findAndModify open a cursor with Conn.Find, read one reply    *)
(* and return.                                                              *)

\* Collection.findAndModify(cmd, result): e.bad: Next cannot decode the reply
\* into r; e.rbad: r.Value.Decode(result) fails.  The deferred
\* cursor.Close() runs at each return that follows a successful Find.
findAndModify(c, cmd, result, e) ==
    LET find  == [fn |-> "Find", ns |-> SplitNamespace(c.Namespace)[1] \o DollarCmd,
                  cmd |-> cmd, opts |-> runFindOptions]
        next  == [fn |-> "Next"]
        close == [fn |-> "Close"]
    IN  IF e.ferr # Nil
        THEN [calls |-> <<find>>, err |-> e.ferr, written |-> FALSE]
        ELSE IF e.nerr # Nil
        THEN [calls |-> <<find, next, close>>, err |-> e.nerr, written |-> FALSE]
        ELSE IF e.bad
        THEN [calls |-> <<find, next, close>>, err |-> DecodeErr, written |-> FALSE]
        ELSE IF Error(e.reply) # Nil
        THEN [calls |-> <<find, next, close>>, err |-> Error(e.reply), written |-> FALSE]
        ELSE [calls |-> <<find, next, close>>, err |-> IF e.rbad THEN DecodeErr ELSE Nil,
              written |-> TRUE]

\* Collection.FindAndUpdate(selector, update, options, result)
FindAndUpdate(c, options, result, e) ==
    findAndModify(c, [findAndModify |-> SplitNamespace(c.Namespace)[2], query |-> "selector",
                      update |-> "update", options |-> options], result, e)

\* Collection.FindAndRemove(selector, options, result)
FindAndRemove(c, options, result, e) ==
    findAndModify(c, [findAndModify |-> SplitNamespace(c.Namespace)[2], query |-> "selector",
                      remove |-> TRUE, options |-> options], result, e)

\* what the connection does during a LastError: Find fails, Next fails, or
\* Next delivers a reply
LastErrorEnvs == {e \in Envs : e.terr = Nil}

CallLastError(cmd, e) ==
    /\ fac' = Done("LastError", [db |-> fac.db, cmd |-> cmd], e, LastError(fac.db, cmd, e))
    /\ UNCHANGED <<CursorVars, BsonVars>>

CallFindAndUpdate(options, result, e) ==
    /\ LET out == FindAndUpdate(fac.coll, options, result, e)
       IN  fac' = [Done("FindAndUpdate", [c |-> fac.coll, options |-> options, result |-> result],
                        e, out) EXCEPT !.written = out.written]
    /\ UNCHANGED <<CursorVars, BsonVars>>

CallFindAndRemove(options, result, e) ==
    /\ LET out == FindAndRemove(fac.coll, options, result, e)
       IN  fac' = [Done("FindAndRemove", [c |-> fac.coll, options |-> options, result |-> result],
                        e, out) EXCEPT !.written = out.written]
    /\ UNCHANGED <<CursorVars, BsonVars>>

\* the program runs commands, asks for the last error, and finds and modifies
NextOneShot ==
    \/ \E cmd \in {"{ping: 1}", "{count: c}"}, result \in {"nil", "&result"}, e \in RunEnvs :
          CallRun(cmd, result, e)
    \/ \E cmd \in Cmds, e \in LastErrorEnvs : CallLastError(cmd, e)
    \/ \E options \in {"nil", "&options"}, result \in {"nil", "&result"}, e \in RunEnvs :
          CallFindAndUpdate(options, result, e)
    \/ \E options \in {"nil", "&options"}, result \in {"nil", "&result"}, e \in RunEnvs :
          CallFindAndRemove(options, result, e)

SpecOneShot == InitFacade /\ [][NextOneShot]_vars

\* C22 (one-shot cursors): the cursor that Database.Run, Database.LastError
\* and Collection.findAndModify open is closed exactly once before the
\* operation returns, on every exit path (success, error from Next, command
\* error, write error, decode error): a call that follows a successful Find
\* ends with one Close of the cursor, and nothing is closed when Find failed.
C22_CursorClosed ==
    fac.op \in {"Run", "LastError", "FindAndUpdate", "FindAndRemove"} =>
        /\ CallsOf({"Find"}) = {1}
        /\ CallsOf({"Close"}) = IF fac.e.ferr = Nil THEN {Len(fac.calls)} ELSE {}
====
